---------------------------- MODULE Spec2Model ----------------------------
(***************************************************************************)
(* A model of rustycasc: the CDN fetch orchestrator (fetch_cdn_bytes, the  *)
(* throttled CdnClient), the product pass `process` with its closure       *)
(* walker, and the BLTE decoder.                                           *)
(*                                                                         *)
(* Representation.  A u128 (a key, an MD5 digest) is the sequence of its   *)
(* 16 big-endian bytes: u128::from_be_bytes and Buf::get_u128 are          *)
(* bijections between the two, and the program only compares keys,         *)
(* formats them and shifts them by whole bytes.  Byte strings are          *)
(* sequences over 0..255.                                                  *)
(***************************************************************************)
EXTENDS Integers, Sequences, FiniteSets, Bags, TLC

VARIABLES
    pc,            \* position of the top-level future (process, or a driver)
    cdn_prefixes,  \* CdnClient.cdn_prefixes
    throttle,      \* permits available in CdnClient.throttle
    fetches,       \* per task: the fetch_cdn_bytes call it is suspended in
    call,          \* arguments of the call under test
    ret,           \* value returned to the caller
    wire,          \* history: the requests of that call, in the order sent
    world,         \* the environment of a pass: what the CDN holds, the build
    proc,          \* the locals of process
    zips,          \* the file zips/<slug>.zip
    failures,      \* history: the requests that have failed so far
    cascdb         \* the files under cascdb/: <<local_tag, hash>> -> bytes

vars ==
    <<pc, cdn_prefixes, throttle, fetches, call, ret, wire, world, proc, zips, failures, cascdb>>

---------------------------------------------------------------------------
(* Bounds of the exploration. *)
MaxHosts == 2
MaxArchives == 5
MaxLoad == 9
MaxChunks == 2
MaxPayload == 2

(* Program constants. *)
LastRound == 9
Permits == 5
KeyBytes == 16

---------------------------------------------------------------------------
(* Option<T> as a sequence of length at most one. *)
None == <<>>
Some(x) == <<x>>
unwrap_or(o, d) == IF o = None THEN d ELSE o[1]

(* A u128 whose first byte is hi and last byte is lo. *)
U128(hi, lo) == [i \in 1..KeyBytes |-> IF i = 1 THEN hi ELSE IF i = KeyBytes THEN lo ELSE 0]

(* format!("{:032x}", hash): two hex digits per byte, most significant
   first; a digit is its value 0..15. *)
hex032(hash) ==
    [i \in 1..(2 * KeyBytes) |->
        IF i % 2 = 1 THEN hash[(i + 1) \div 2] \div 16 ELSE hash[i \div 2] % 16]

(* The object path "{tag}/{h[0..2]}/{h[2..4]}/{h}{suffix}" as its parts. *)
cdn_path(tag, hash, suffix) ==
    LET h == hex032(hash)
    IN  [tag |-> tag, dir1 |-> SubSeq(h, 1, 2), dir2 |-> SubSeq(h, 3, 4),
         file |-> h, suffix |-> unwrap_or(suffix, "")]

(* bail!("fetch failed on all hosts: {}", path) *)
AllHostsFailed(path) == [msg |-> "fetch failed on all hosts", path |-> path]

---------------------------------------------------------------------------
(* Byte strings. *)
RECURSIVE SumSeq(_)
SumSeq(s) == IF s = <<>> THEN 0 ELSE s[1] + SumSeq(Tail(s))

RECURSIVE Concat(_)
Concat(ss) == IF ss = <<>> THEN <<>> ELSE ss[1] \o Concat(Tail(ss))

(* Buf::get_u8 / get_u16 / get_u32 / the 24-bit count: the big-endian
   value of a short byte string. *)
RECURSIVE be(_)
be(b) == IF b = <<>> THEN 0 ELSE 256 * be(SubSeq(b, 1, Len(b) - 1)) + b[Len(b)]

(* The big-endian bytes of v, w of them. *)
RECURSIVE be_bytes(_, _)
be_bytes(v, w) == IF w = 0 THEN <<>> ELSE Append(be_bytes(v \div 256, w - 1), v % 256)

(* slice[from..to] of Rust (from inclusive and 0-based, to exclusive). *)
Slice(s, from, to) == SubSeq(s, from + 1, to)

(* util::md5hash: the digest as a u128.  MD5 itself is replaced by a
   position-weighted checksum spread over the 16 digest bytes: a total
   deterministic function of the bytes, which is all the program uses.
   (The sum s1 of the bytes and the sum s2 of each byte times its
   position are cardinalities of bags: position i is held once and as
   often as its term says.) *)
md5hash(p) ==
    CHOOSE digest \in UNION
      { { [i \in 1..KeyBytes |-> (Len(b) + i * s1 + s2 + 7 * i) % 256] :
            s1 \in {BagCardinality([i \in 1..Len(b) |-> 1 + b[i]]) - Len(b)},
            s2 \in {BagCardinality([i \in 1..Len(b) |-> 1 + i * b[i]]) - Len(b)} } :
          b \in {p} } : TRUE

(* usize arithmetic.  The width is 64 bits in the program; the model keeps
   the wrap-around at 2^30, far above every operand it builds, because the
   model checker's integers are 32 bits wide.  An overflowing operation
   panics in a build with overflow checks ("debug") and wraps in one
   without ("release"). *)
UsizeModulus == 2 ^ 30
Overflowed == [ok |-> FALSE, val |-> 0]
usize_result(v, build) ==
    IF v >= 0 /\ v < UsizeModulus THEN [ok |-> TRUE, val |-> v]
    ELSE IF build = "debug" THEN Overflowed
    ELSE [ok |-> TRUE, val |-> v % UsizeModulus]
usize_sub(a, b, build) == usize_result(a - b, build)
usize_add(a, b, build) == usize_result(a + b, build)

(* Result<T>, and a panic (which unwinds out of the caller). *)
Ok(v) == [kind |-> "ok", val |-> v, msg |-> ""]
Err(msg) == [kind |-> "err", val |-> <<>>, msg |-> msg]
Panic(msg) == [kind |-> "panic", val |-> <<>>, msg |-> msg]

---------------------------------------------------------------------------
(* miniz_oxide::inflate::decompress_to_vec_zlib, for streams made of one
   final stored block: CMF/FLG, the block header 01, LEN and its
   complement (little-endian), LEN literal bytes, and the big-endian
   Adler-32 of those bytes.  Any other stream is an error here. *)
AdlerBase == 65521
adler32(raw) ==
    LET a == (1 + SumSeq(raw)) % AdlerBase
        b == (Len(raw) + SumSeq([i \in 1..Len(raw) |-> (Len(raw) - i + 1) * raw[i]])) % AdlerBase
    IN  be_bytes(b, 2) \o be_bytes(a, 2)

zlib_stored(raw) ==
    <<120, 1, 1, Len(raw) % 256, Len(raw) \div 256,
      255 - (Len(raw) % 256), 255 - (Len(raw) \div 256)>> \o raw \o adler32(raw)

inflate(d) ==
    IF Len(d) < 7 THEN Err("inflate error")
    ELSE LET len == d[4] + 256 * d[5]
         IN  IF \/ d[1] # 120
                \/ (256 * d[1] + d[2]) % 31 # 0
                \/ (d[2] \div 32) % 2 # 0
                \/ d[3] % 8 # 1
                \/ d[6] + 256 * d[7] # 65535 - len
                \/ Len(d) < 7 + len + 4
                \/ SubSeq(d, 8 + len, 11 + len) # adler32(SubSeq(d, 8, 7 + len))
             THEN Err("inflate error")
             ELSE Ok(SubSeq(d, 8, 7 + len))

---------------------------------------------------------------------------
(* blte.rs *)
MagicBLTE == <<66, 76, 84, 69>>
TagN == 78
TagZ == 90

(* parse_blte_chunk: &data[1..] is taken first and panics on an empty
   chunk. *)
parse_blte_chunk(data) ==
    IF Len(data) < 1 THEN Panic("range start index 1 out of range")
    ELSE LET chunk_data == Slice(data, 1, Len(data))
         IN  IF data[1] = TagN THEN Ok(chunk_data)
             ELSE IF data[1] = TagZ THEN inflate(chunk_data)
             ELSE Err("invalid encoding")

(* The chunk descriptors: chunk_count times (u32, u32, u128) from p. *)
chunkinfo(p, chunk_count) ==
    [k \in 1..chunk_count |->
        LET o == 24 * (k - 1)
        IN  [compressed_size |-> be(Slice(p, o, o + 4)),
             uncompressed_size |-> be(Slice(p, o + 4, o + 8)),
             checksum |-> Slice(p, o + 8, o + 24)]]

(* Mutant: bytes after the last chunk are ignored. *)
parse_end_ignoring_rest(p, result) == Ok(result)

(* ensure!(!p.has_remaining(), "trailing blte data"); Ok(result.to_vec()) *)
parse_end(p, result) ==
    IF p # <<>> THEN Err("trailing blte data") ELSE Ok(result)

(* Mutant: the decoded length is not compared with the declared one. *)
chunk_size_unchecked(decoded, uncompressed_size) == TRUE

(* ensure!(data.len() == uncompressed_size, "invalid uncompressed size") *)
chunk_size_checked(decoded, uncompressed_size) == Len(decoded) = uncompressed_size

(* The loop over chunkinfo: p is the unread input, result the output so
   far. *)
RECURSIVE parse_chunks(_, _, _)
parse_chunks(p, infos, result) ==
    IF infos = <<>> THEN parse_end(p, result)
    ELSE LET c == infos[1]
         IN  IF c.compressed_size > Len(p) THEN Panic("range end index out of range")
             ELSE LET chunk == Slice(p, 0, c.compressed_size)
                  IN  IF c.checksum # md5hash(chunk) THEN Err("chunk checksum error")
                      ELSE LET data == parse_blte_chunk(chunk)
                           IN  IF data.kind # "ok" THEN data
                               ELSE IF ~chunk_size_checked(data.val, c.uncompressed_size)
                                    THEN Err("invalid uncompressed size")
                                    ELSE parse_chunks(Slice(p, c.compressed_size, Len(p)),
                                                      Tail(infos), result \o data.val)

(* Mutant: any container checksum is accepted. *)
container_check_skipped(checksum, bytes) == TRUE

(* ensure!(util::md5hash(..) == checksum), of the whole blob or of its
   header *)
container_check(checksum, bytes) == md5hash(bytes) = checksum

(* parse, after the magic and header_size != 0 *)
parse_framed(checksum, data, header_size, build) ==
    LET rest == usize_sub(header_size, 8, build)
    IN  IF ~rest.ok THEN Panic("attempt to subtract with overflow")
        ELSE IF Len(data) - 8 < rest.val THEN Err("Condition failed")
        ELSE IF ~container_check(checksum, Slice(data, 0, header_size))
             THEN Err("Condition failed")
        ELSE IF data[9] # 15 THEN Err("bad flag byte")
        ELSE LET chunk_count == be(Slice(data, 9, 12))
             IN  IF header_size # chunk_count * 24 + 12 THEN Err("header size mismatch")
                 ELSE parse_chunks(Slice(data, header_size, Len(data)),
                                   chunkinfo(Slice(data, 12, header_size), chunk_count),
                                   <<>>)

parse(checksum, data, build) ==
    IF Len(data) < 12 THEN Err("truncated header")
    ELSE IF Slice(data, 0, 4) # MagicBLTE THEN Err("not BLTE format")
    ELSE LET header_size == be(Slice(data, 4, 8))
         IN  IF header_size = 0
             THEN IF ~container_check(checksum, data) THEN Err("Condition failed")
                  ELSE parse_blte_chunk(Slice(data, 8, Len(data)))
             ELSE parse_framed(checksum, data, header_size, build)

(* The writers of the format: the inverse of parse, with an optional
   fault. *)
encode_chunk(c) ==
    <<c.tag>> \o (IF c.tag = TagZ THEN zlib_stored(c.payload) ELSE c.payload)

Corrupted(key) == [key EXCEPT ![KeyBytes] = (key[KeyBytes] + 1) % 256]

(* A framed blob of the chunks cs; the fault, if any, is in the header,
   in the first chunk's descriptor, or at the end of the body. *)
blte_framed(cs, fault) ==
    LET enc == [k \in 1..Len(cs) |-> encode_chunk(cs[k])]
        desc(k) ==
            LET hit == (k = 1)
                csz == IF hit /\ fault = "compressed_size_less" THEN Len(enc[k]) - 1
                       ELSE IF hit /\ fault = "compressed_size_more" THEN Len(enc[k]) + 1
                       ELSE IF hit /\ fault = "compressed_size_zero" THEN 0
                       ELSE Len(enc[k])
                usz == IF hit /\ fault = "uncompressed_size" THEN Len(cs[k].payload) + 1
                       ELSE Len(cs[k].payload)
                sum == md5hash(Slice(enc[k], 0, IF csz <= Len(enc[k]) THEN csz ELSE Len(enc[k])))
            IN  be_bytes(csz, 4) \o be_bytes(usz, 4)
                \o (IF hit /\ fault = "chunk_checksum" THEN Corrupted(sum) ELSE sum)
        descs == Concat([k \in 1..Len(cs) |-> desc(k)])
        size == 12 + 24 * Len(cs)
        hs == IF fault = "header_size" THEN size + 1
              ELSE IF fault = "short_header_size" THEN 4
              ELSE size
        body == Concat(enc)
    IN  (IF fault = "magic" THEN <<66, 76, 84, 70>> ELSE MagicBLTE)
        \o be_bytes(hs, 4)
        \o <<IF fault = "flag" THEN 14 ELSE 15>>
        \o be_bytes(IF fault = "count" THEN Len(cs) + 1 ELSE Len(cs), 3)
        \o descs
        \o (IF fault = "truncated" /\ body # <<>> THEN SubSeq(body, 1, Len(body) - 1) ELSE body)
        \o (IF fault = "trailing" THEN <<0>> ELSE <<>>)

(* An unframed blob: header_size 0 and one chunk. *)
blte_unframed(c, fault) ==
    (IF fault = "magic" THEN <<66, 76, 84, 70>> ELSE MagicBLTE)
    \o <<0, 0, 0, 0>> \o encode_chunk(c)
    \o (IF fault = "trailing" THEN <<0>> ELSE <<>>)

(* The checksum the blob is stored under: the hash of its header, or of
   the whole blob when header_size is 0. *)
blte_checksum(data, fault) ==
    LET hs == IF Len(data) >= 8 THEN be(Slice(data, 4, 8)) ELSE 0
        sum == IF hs = 0 \/ hs > Len(data) THEN md5hash(data)
               ELSE md5hash(Slice(data, 0, hs))
    IN  IF fault = "container_checksum" THEN Corrupted(sum) ELSE sum

---------------------------------------------------------------------------
(* Text.  A String or &str is the sequence of its UTF-8 bytes; the texts of
   the model are ASCII.  Printable lists the characters of codes 32..126,
   so that the model's names can be written as characters (the grave
   accent, which a string cannot hold, by name). *)
Printable == <<
    " ", "!", "\"", "#", "$", "%", "&", "'", "(", ")", "*", "+",
    ",", "-", ".", "/", "0", "1", "2", "3", "4", "5", "6", "7",
    "8", "9", ":", ";", "<", "=", ">", "?", "@", "A", "B", "C",
    "D", "E", "F", "G", "H", "I", "J", "K", "L", "M", "N", "O",
    "P", "Q", "R", "S", "T", "U", "V", "W", "X", "Y", "Z", "[",
    "\\", "]", "^", "_", "grave", "a", "b", "c", "d", "e", "f", "g",
    "h", "i", "j", "k", "l", "m", "n", "o", "p", "q", "r", "s",
    "t", "u", "v", "w", "x", "y", "z", "{", "|", "}", "~">>

code(c) ==
    IF c = "\n" THEN 10 ELSE IF c = "\r" THEN 13 ELSE IF c = "\t" THEN 9
    ELSE 31 + (CHOOSE i \in 1..Len(Printable) : Printable[i] = c)

str(cs) == [i \in 1..Len(cs) |-> code(cs[i])]

Backslash == code("\\")
Slash == code("/")

(* std::str::from_utf8: no UTF-8 text holds a byte 0xF8..0xFF.  (The
   model builds no byte 0x80..0xF7.) *)
from_utf8(b) ==
    IF \E i \in 1..Len(b) : b[i] >= 248 THEN Err("invalid utf-8 sequence") ELSE Ok(b)

to_lowercase(s) == [i \in 1..Len(s) |-> IF s[i] \in 65..90 THEN s[i] + 32 ELSE s[i]]
to_uppercase(s) == [i \in 1..Len(s) |-> IF s[i] \in 97..122 THEN s[i] - 32 ELSE s[i]]
replace(s, from, to) == [i \in 1..Len(s) |-> IF s[i] = from THEN to ELSE s[i]]
starts_with(s, prefix) == Len(s) >= Len(prefix) /\ SubSeq(s, 1, Len(prefix)) = prefix
ends_with(s, suffix) ==
    Len(s) >= Len(suffix) /\ SubSeq(s, Len(s) - Len(suffix) + 1, Len(s)) = suffix
strip_prefix(s, prefix) ==
    IF starts_with(s, prefix) THEN Some(SubSeq(s, Len(prefix) + 1, Len(s))) ELSE None

(* str::split(sep): always at least one part. *)
RECURSIVE split(_, _)
split(s, sep) ==
    IF \A i \in 1..Len(s) : s[i] # sep THEN <<s>>
    ELSE LET i == CHOOSE j \in 1..Len(s) : s[j] = sep /\ \A k \in 1..(j - 1) : s[k] # sep
         IN  <<SubSeq(s, 1, i - 1)>> \o split(SubSeq(s, i + 1, Len(s)), sep)

(* [&str]::join(sep) *)
RECURSIVE join(_, _)
join(parts, sep) ==
    IF parts = <<>> THEN <<>>
    ELSE IF Len(parts) = 1 THEN parts[1]
    ELSE parts[1] \o sep \o join(Tail(parts), sep)

(* str::trim: white space off both ends. *)
WhiteSpace == {9, 10, 11, 12, 13, 32}
RECURSIVE trim_start(_)
trim_start(s) == IF s # <<>> /\ s[1] \in WhiteSpace THEN trim_start(Tail(s)) ELSE s
RECURSIVE trim_end(_)
trim_end(s) ==
    IF s # <<>> /\ s[Len(s)] \in WhiteSpace THEN trim_end(SubSeq(s, 1, Len(s) - 1)) ELSE s
trim(s) == trim_start(trim_end(s))

(* str::lines: the parts between "\n", less a final empty part, each less
   the "\r" that ended it. *)
lines(s) ==
    LET parts == split(s, code("\n"))
        kept == IF parts[Len(parts)] = <<>> THEN SubSeq(parts, 1, Len(parts) - 1) ELSE parts
    IN  [i \in 1..Len(kept) |->
            IF i < Len(parts) /\ kept[i] # <<>> /\ kept[i][Len(kept[i])] = code("\r")
            THEN SubSeq(kept[i], 1, Len(kept[i]) - 1)
            ELSE kept[i]]

(* Mutant: nothing is dropped. *)
pop_nothing(v) == v

(* Vec::pop as a statement: the last element, if any, is dropped. *)
pop(v) == IF v = <<>> THEN v ELSE SubSeq(v, 1, Len(v) - 1)

(* SelectSeq with the test written as a set of kept indices. *)
RECURSIVE Filter(_, _)
Filter(s, keep) ==
    IF s = <<>> THEN <<>>
    ELSE Filter(SubSeq(s, 1, Len(s) - 1), keep)
         \o (IF Len(s) \in keep THEN <<s[Len(s)]>> ELSE <<>>)

(* normalize_path: the loop over the parts of file. *)
RECURSIVE normalize_parts(_, _)
normalize_parts(base, parts) ==
    IF parts = <<>> THEN base
    ELSE normalize_parts(IF parts[1] = str(<<".", ".">>) THEN pop(base)
                         ELSE Append(base, parts[1]),
                         Tail(parts))

normalize_path(base, file) ==
    LET b == split(replace(base, Slash, Backslash), Backslash)
        f == replace(file, Slash, Backslash)
    IN  IF b = <<>> THEN f
        ELSE join(normalize_parts(pop(b), split(f, Backslash)), <<Backslash>>)

---------------------------------------------------------------------------
(* The parsed tables, as the program holds them.  A HashMap is a function
   on its key set. *)
Has(map, key) == key \in DOMAIN map

(* Iterator::collect into a HashMap: of the pairs with one key, the last. *)
collect(pairs) ==
    [k \in {pairs[i][1] : i \in 1..Len(pairs)} |->
        pairs[CHOOSE i \in 1..Len(pairs) :
                /\ pairs[i][1] = k
                /\ \A j \in (i + 1)..Len(pairs) : pairs[j][1] # k][2]]

(* Encoding::c2e *)
c2e(encoding, c) ==
    IF ~Has(encoding.cmap, c) THEN Err("no encoding key for content key")
    ELSE IF encoding.cmap[c].ekeys = <<>> THEN Err("missing encoding key for content key")
    ELSE Ok(encoding.cmap[c].ekeys[1])

(* hashers::jenkins::lookup3, a u64 as its 8 big-endian bytes.  The mixing
   function is replaced by a position-weighted checksum, as for MD5. *)
NameHashBytes == 8
lookup3(b) ==
    LET s1 == SumSeq(b)
        s2 == SumSeq([i \in 1..Len(b) |-> i * b[i]])
    IN  [i \in 1..NameHashBytes |-> (3 * Len(b) + i * s1 + s2 + 11 * i) % 256]

(* Mutant: the name as given, not upper-cased. *)
name_hash_as_is(name) ==
    LET hash == lookup3(name)
    IN  SubSeq(hash, 5, 8) \o SubSeq(hash, 1, 4)

(* Root::n2c, the hash it looks up: hi and lo words swapped. *)
name_hash(name) ==
    LET hash == lookup3(to_uppercase(name))
        hi == SubSeq(hash, 1, 4)
        lo == SubSeq(hash, 5, 8)
    IN  lo \o hi

(* Root::f2c *)
f2c(root, fdid) ==
    IF ~Has(root.fmap, fdid) THEN Err("missing fdid in root")
    ELSE Ok(root.data[root.fmap[fdid]].content_key)

(* Root::n2c *)
n2c(root, name) ==
    IF ~Has(root.nmap, name_hash(name)) THEN Err("missing name hash in root")
    ELSE Ok(root.data[root.nmap[name_hash(name)]].content_key)

(* root::parse, its last expression: the maps over the records. *)
Root(data) ==
    [data |-> data,
     fmap |-> collect([k \in 1..Len(data) |-> <<data[k].fdid, k>>]),
     nmap |-> collect(Filter([k \in 1..Len(data) |->
                                 <<unwrap_or(data[k].name_hash, <<>>), k>>],
                             {k \in 1..Len(data) : data[k].name_hash # None}))]

---------------------------------------------------------------------------
(* wdc3::strings on a reduced table format that stands for WDC3: "WDC3",
   a row count, and per row its id (4 bytes, big-endian), the number of
   its strings, and each string after its length.  Ok(map) from row id to
   the row's strings. *)
MagicWDC3 == <<87, 68, 67, 51>>
NoRead == [ok |-> FALSE, val |-> <<>>, rest |-> <<>>]

RECURSIVE read_strings(_, _)
read_strings(p, n) ==
    IF n = 0 THEN [ok |-> TRUE, val |-> <<>>, rest |-> p]
    ELSE IF p = <<>> \/ Len(p) < 1 + p[1] THEN NoRead
    ELSE LET r == read_strings(Slice(p, 1 + p[1], Len(p)), n - 1)
         IN  IF ~r.ok THEN NoRead
             ELSE [r EXCEPT !.val = <<Slice(p, 1, 1 + p[1])>> \o r.val]

RECURSIVE read_rows(_, _)
read_rows(p, n) ==
    IF n = 0 THEN [ok |-> TRUE, val |-> <<>>, rest |-> p]
    ELSE IF Len(p) < 5 THEN NoRead
    ELSE LET v == read_strings(Slice(p, 5, Len(p)), p[5])
             r == read_rows(v.rest, n - 1)
         IN  IF ~v.ok \/ ~r.ok THEN NoRead
             ELSE [r EXCEPT !.val = <<<<be(Slice(p, 0, 4)), v.val>>>> \o r.val]

wdc3_strings(data) ==
    IF Len(data) < 5 \/ Slice(data, 0, 4) # MagicWDC3 THEN Err("parse error")
    ELSE LET r == read_rows(Slice(data, 5, Len(data)), data[5])
         IN  IF ~r.ok \/ r.rest # <<>> THEN Err("parse error")
             ELSE IF \E i \in 1..Len(r.val) : \E j \in 1..Len(r.val[i][2]) :
                        from_utf8(r.val[i][2][j]).kind # "ok"
                  THEN Err("wdc3 string field parsing")
                  ELSE Ok(collect(r.val))

(* The writer of that format. *)
wdc3_table(rows) ==
    MagicWDC3 \o <<Len(rows)>>
    \o Concat([i \in 1..Len(rows) |->
                 be_bytes(rows[i].id, 4) \o <<Len(rows[i].strings)>>
                 \o Concat([j \in 1..Len(rows[i].strings) |->
                              <<Len(rows[i].strings[j])>> \o rows[i].strings[j]])])

(* xml::reader::EventReader, and the walker's filter over its events, on
   a reduced document syntax that stands for XML: a sequence of elements
   "<" k value ">", k one letter: S a Script and I an Include element
   (s and i the same in lower case) with the attribute file="value", any
   other letter another element with that attribute.  Anything else is
   malformed.  Ok(values pushed), in document order. *)
RECURSIVE xml_files(_)
xml_files(xml) ==
    IF xml = <<>> THEN Ok(<<>>)
    ELSE IF xml[1] # code("<") \/ Len(xml) < 3
              \/ \A j \in 3..Len(xml) : xml[j] # code(">")
    THEN Err("xml syntax error")
    ELSE LET j == CHOOSE k \in 3..Len(xml) :
                     xml[k] = code(">") /\ \A m \in 3..(k - 1) : xml[m] # code(">")
             rest == xml_files(SubSeq(xml, j + 1, Len(xml)))
             name == to_lowercase(<<xml[2]>>)
         IN  IF rest.kind # "ok" THEN rest
             ELSE IF name = str(<<"s">>) \/ name = str(<<"i">>)
                  THEN Ok(<<SubSeq(xml, 3, j - 1)>> \o rest.val)
                  ELSE rest

BOM == <<239, 187, 191>>

---------------------------------------------------------------------------
(* The CDN a pass runs against: five files in archive 1, the last of them
   stored again in every further archive.  A deviation makes the tables
   inconsistent about that last file, or damages the text of another, or
   ("cyclic") makes the XML file include itself. *)
FdidsFile == 1375801
DirsFile == 1267335
TocFile == 5
XmlFile == 6
LuaFile == 7

Deviations ==
    {"none", "unnamed", "unnamed_unlisted", "unnamed_norecord", "fallback_differs",
     "no_encoding", "wrong_encoding", "no_index", "empty_entry", "no_root_encoding",
     "bad_toc", "bad_xml", "cyclic"}

CdnFiles(dev) ==
    LET DirName == str(<<"A", "\\">>)
        TocName == str(<<"A", "\\", "A", ".", "t", "o", "c">>)
        XmlName == str(<<"A", "\\", "b", ".", "x", "m", "l">>)
        LuaName == str(<<"A", "\\", "c", ".", "l", "u", "a">>)
        TocText ==
            str(<<"b", ".", "x", "m", "l", "\n", "#", "x", "\n", "\n",
                  " ", "c", ".", "l", "u", "a", "\r", "\n", "m", ".", "l", "u", "a">>)
        XmlText ==
            BOM \o str(<<"<", "S", "c", ".", "l", "u", "a", ">",
                         "<", "F", "q", ".", "l", "u", "a", ">">>)
        XmlSelf == BOM \o str(<<"<", "I", "b", ".", "x", "m", "l", ">">>)
        LuaText == str(<<"-", "-">>)
        FdidsRows ==
            IF dev = "unnamed_unlisted" THEN <<>>
            ELSE <<[id |-> IF dev = "fallback_differs" THEN XmlFile ELSE LuaFile,
                    strings |-> <<DirName, str(<<"C", ".", "L", "U", "A">>)>>]>>
        DirsRows == <<[id |-> 1, strings |-> <<DirName>>]>>
    IN  <<[fdid |-> FdidsFile, name |-> None, content |-> wdc3_table(FdidsRows),
           tag |-> TagN, framed |-> TRUE],
          [fdid |-> DirsFile, name |-> None, content |-> wdc3_table(DirsRows),
           tag |-> TagZ, framed |-> TRUE],
          [fdid |-> TocFile, name |-> Some(TocName),
           content |-> IF dev = "bad_toc" THEN TocText \o <<255>> ELSE TocText,
           tag |-> TagN, framed |-> FALSE],
          [fdid |-> XmlFile, name |-> Some(XmlName),
           content |-> IF dev = "bad_xml" THEN XmlText \o str(<<"<">>)
                       ELSE IF dev = "cyclic" THEN XmlSelf ELSE XmlText,
           tag |-> TagN, framed |-> TRUE],
          [fdid |-> LuaFile,
           name |-> IF dev \in {"unnamed", "unnamed_unlisted", "unnamed_norecord"}
                    THEN None ELSE Some(LuaName),
           content |-> LuaText, tag |-> TagZ, framed |-> TRUE]>>

Blob(file) ==
    IF file.framed
    THEN blte_framed(<<[tag |-> file.tag, payload |-> file.content]>>, "none")
    ELSE blte_unframed([tag |-> file.tag, payload |-> file.content], "none")
CKey(file) == md5hash(file.content)
EKey(file) == blte_checksum(Blob(file), "none")

BuildConfigHash == U128(17, 1)
CdnConfigHash == U128(17, 2)
EncodingEKey == U128(69, 1)
RootCKey == U128(82, 1)
RootEKey == U128(82, 2)
ArchiveKey(k) == U128(160, k)

CdnRoot(dev) ==
    LET files == CdnFiles(dev)
        listed == {i \in 1..Len(files) :
                      ~(dev = "unnamed_norecord" /\ files[i].fdid = LuaFile)}
    IN  Root(Filter([i \in 1..Len(files) |->
                        [fdid |-> files[i].fdid, content_key |-> CKey(files[i]),
                         name_hash |-> IF files[i].name = None THEN None
                                       ELSE Some(name_hash(files[i].name[1]))]],
                    listed))

CdnEncoding(dev) ==
    LET files == CdnFiles(dev)
        of(c) == CHOOSE i \in 1..Len(files) : CKey(files[i]) = c
        keys == {CKey(files[i]) : i \in 1..Len(files)}
        listed == IF dev = "no_encoding" THEN keys \ {CKey(files[Len(files)])} ELSE keys
    IN  [cmap |->
            [c \in listed \cup (IF dev = "no_root_encoding" THEN {} ELSE {RootCKey}) |->
                IF c = RootCKey THEN [ekeys |-> <<RootEKey>>, size |-> 0]
                ELSE [ekeys |-> <<IF dev = "wrong_encoding" /\ of(c) = Len(files)
                                  THEN EKey(files[3]) ELSE EKey(files[of(c)])>>,
                      size |-> Len(files[of(c)].content)]]]

(* The bytes of archive k. *)
CdnArchive(dev, k) ==
    LET files == CdnFiles(dev)
    IN  IF k = 1 THEN Concat([i \in 1..Len(files) |-> Blob(files[i])])
        ELSE Blob(files[Len(files)])

(* The index of archive k: encoding key -> (archive, size, offset). *)
CdnIndex(dev, k) ==
    LET files == CdnFiles(dev)
        last == Len(files)
        stored == IF k = 1 THEN 1..last ELSE {last}
        listed == IF dev = "no_index" THEN stored \ {last} ELSE stored
        of(e) == CHOOSE i \in listed : EKey(files[i]) = e
        start(i) == SumSeq([j \in 1..(i - 1) |-> Len(Blob(files[j]))])
    IN  [map |->
            [e \in {EKey(files[i]) : i \in listed} |->
                IF dev = "empty_entry" /\ of(e) = last
                THEN [archive |-> ArchiveKey(k), size |-> 0, offset |-> 0]
                ELSE [archive |-> ArchiveKey(k), size |-> Len(Blob(files[of(e)])),
                      offset |-> IF k = 1 THEN start(of(e)) ELSE 0]]]

(* Everything about the CDN, computed once per deviation. *)
Cdn ==
    [dev \in Deviations |->
        [files |-> CdnFiles(dev),
         blobs |-> [i \in 1..Len(CdnFiles(dev)) |-> Blob(CdnFiles(dev)[i])],
         root |-> CdnRoot(dev), encoding |-> CdnEncoding(dev),
         archives |-> [k \in 1..MaxArchives |-> CdnArchive(dev, k)],
         indices |-> [k \in 1..MaxArchives |-> CdnIndex(dev, k)]]]

---------------------------------------------------------------------------
(* CdnClient::fetch_bytes.  `let _ = self.throttle.acquire().await?;`
   matches the permit against `_`, which binds nothing: the permit is a
   temporary of that statement and is dropped at its end, before the
   request of the next line is sent. *)
acquire(permits) == permits - 1
drop_permit(permits) == permits + 1
fetch_bytes_throttle(permits) == drop_permit(acquire(permits))

---------------------------------------------------------------------------
(* fetch_cdn_bytes: the two nested loops.  A position is <<round, idx>>,
   idx an index into cdn_prefixes; NoPos when the loops are over. *)
NoPos == <<0, 0>>

FirstPos(prefixes) == IF Len(prefixes) = 0 THEN NoPos ELSE <<1, 1>>

(* Mutant: hosts in the outer loop, rounds in the inner one. *)
NextPos_host_major(prefixes, pos) ==
    IF pos[1] < LastRound THEN <<pos[1] + 1, pos[2]>>
    ELSE IF pos[2] < Len(prefixes) THEN <<1, pos[2] + 1>>
    ELSE NoPos

(* Mutant: a single round over the hosts. *)
NextPos_one_round(prefixes, pos) ==
    IF pos[2] < Len(prefixes) THEN <<pos[1], pos[2] + 1>> ELSE NoPos

NextPos(prefixes, pos) ==
    IF pos[2] < Len(prefixes) THEN <<pos[1], pos[2] + 1>>
    ELSE IF pos[1] < LastRound THEN <<pos[1] + 1, 1>>
    ELSE NoPos

Idle == [st |-> "idle"]

(* The futures that call fetch_cdn_bytes: process itself (fetch_content),
   archive_index (the CDN config), the futures of its try_join_all (one
   per archive), and encoding_and_root. *)
Main == <<"process", 0>>
ArchiveIndex == <<"archive_index", 0>>
IndexOfArchive(i) == <<"index", i>>
EncodingAndRoot == <<"encoding_and_root", 0>>
Tasks == {Main, ArchiveIndex, EncodingAndRoot} \cup {IndexOfArchive(i) : i \in 1..MaxArchives}

(* The call's state once the loops are at pos: a request in flight to
   cdn_prefixes[idx], or the terminal error when the loops are over. *)
AtPos(prefixes, f, pos) ==
    IF pos = NoPos
    THEN [f EXCEPT !.st = "err", !.pos = NoPos, !.url = None,
                   !.error = Some(AllHostsFailed(f.path))]
    ELSE [f EXCEPT !.st = "req", !.pos = pos,
                   !.url = Some([prefix |-> prefixes[pos[2]], path |-> f.path]),
                   !.sent = f.sent + 1]

(* Entry of fetch_cdn_bytes up to its first suspension. *)
fetch_cdn_bytes(prefixes, tag, hash, suffix, range) ==
    AtPos(prefixes,
          [st |-> "new", tag |-> tag, hash |-> hash, suffix |-> suffix,
           range |-> range, path |-> cdn_path(tag, hash, suffix),
           pos |-> NoPos, url |-> None, sent |-> 0, failed |-> 0,
           data |-> None, error |-> None],
          FirstPos(prefixes))

(* Err(msg) => warn!(..): on to the next host, the next round, or out. *)
fetch_failed(prefixes, f) ==
    AtPos(prefixes, [f EXCEPT !.failed = f.failed + 1], NextPos(prefixes, f.pos))

(* Ok(data) => return Ok(data) *)
fetch_succeeded(f, data) ==
    [f EXCEPT !.st = "ok", !.url = None, !.data = Some(data)]

(* Whether evaluating the call from state f sends a request, and so
   passes through CdnClient::fetch_bytes. *)
Sends(f) == f.st = "req"

---------------------------------------------------------------------------
(* The locals of process before its first statement, and the environment
   of the drivers that run no pass. *)
NewProc ==
    [patch |-> {}, versions |-> None, cdns |-> None,
     hashes |-> <<>>, indices |-> <<>>, archive_index |-> None,
     buildinfo |-> None, encoding |-> None, encoding_and_root |-> None,
     content |-> None, fdids |-> None, stack |-> <<>>, file |-> None,
     result |-> <<>>,
     calls |-> 0, returned |-> None, skipped |-> {}]

NoWorld == [dev |-> "none", hosts |-> 1, archives |-> 1, build |-> "debug", cdn |-> <<>>]

(* cascdb/ when it holds no file. *)
NoFiles == <<>>

---------------------------------------------------------------------------
(* Driver of one fetch_cdn_bytes call on a CdnClient. *)

InitFetch ==
    /\ pc = "fetch_call"
    /\ \E n \in 0..MaxHosts : cdn_prefixes = [i \in 1..n |-> i]
    /\ throttle = Permits
    /\ fetches = [t \in Tasks |-> Idle]
    /\ call \in [tag : {"config", "data"},
                 hash : {U128(0, 0), U128(171, 205), U128(18, 52)},
                 suffix : {None, Some(".index")},
                 range : {None, Some(<<0, 3>>)}]
    /\ ret = None
    /\ wire = <<>>
    /\ world = NoWorld
    /\ proc = NewProc
    /\ zips = None
    /\ failures = 0
    /\ cascdb = NoFiles

(* The history of the wire: the request f has in flight is appended, and
   the outcome of the one before it is filled in. *)
Settled(w, outcome, body) ==
    IF w = <<>> THEN w
    ELSE [w EXCEPT ![Len(w)].outcome = outcome, ![Len(w)].body = body]

Logged(w, f) ==
    IF Sends(f)
    THEN Append(w, [url |-> f.url[1], range |-> f.range,
                    outcome |-> "pending", body |-> None])
    ELSE w

FetchCall ==
    /\ pc = "fetch_call"
    /\ LET f == fetch_cdn_bytes(cdn_prefixes, call.tag, call.hash,
                                call.suffix, call.range)
       IN  /\ Sends(f) => throttle > 0
           /\ throttle' = IF Sends(f) THEN fetch_bytes_throttle(throttle) ELSE throttle
           /\ fetches' = [fetches EXCEPT ![Main] = f]
           /\ pc' = IF Sends(f) THEN "fetch_wait" ELSE "fetch_returned"
           /\ ret' = IF Sends(f) THEN ret ELSE Some(f)
           /\ wire' = Logged(wire, f)
    /\ UNCHANGED <<cdn_prefixes, call, world, proc, zips, failures, cascdb>>

FetchRequestFails ==
    /\ pc = "fetch_wait"
    /\ fetches[Main].st = "req"
    /\ LET f == fetch_failed(cdn_prefixes, fetches[Main])
       IN  /\ Sends(f) => throttle > 0
           /\ throttle' = IF Sends(f) THEN fetch_bytes_throttle(throttle) ELSE throttle
           /\ fetches' = [fetches EXCEPT ![Main] = f]
           /\ pc' = IF Sends(f) THEN "fetch_wait" ELSE "fetch_returned"
           /\ ret' = IF Sends(f) THEN ret ELSE Some(f)
           /\ wire' = Logged(Settled(wire, "err", None), f)
    /\ UNCHANGED <<cdn_prefixes, call, world, proc, zips, failures, cascdb>>

FetchRequestSucceeds(data) ==
    /\ pc = "fetch_wait"
    /\ fetches[Main].st = "req"
    /\ LET f == fetch_succeeded(fetches[Main], data)
       IN  /\ fetches' = [fetches EXCEPT ![Main] = f]
           /\ ret' = Some(f)
    /\ wire' = Settled(wire, "ok", Some(data))
    /\ pc' = "fetch_returned"
    /\ UNCHANGED <<cdn_prefixes, throttle, call, world, proc, zips, failures, cascdb>>

NextFetch ==
    \/ FetchCall
    \/ FetchRequestFails
    \/ \E data \in {<<>>, <<66>>} : FetchRequestSucceeds(data)

SpecFetch == InitFetch /\ [][NextFetch]_vars

---------------------------------------------------------------------------
(* Driver of blte::parse: the inputs are BLTE blobs built from at most
   MaxChunks chunks of payloads of at most MaxPayload bytes, well formed
   or with one fault, and the expected checksum that goes with them. *)
BlteFaults == {"none", "magic", "flag", "count", "header_size", "short_header_size",
               "compressed_size_less", "compressed_size_more", "compressed_size_zero",
               "uncompressed_size", "chunk_checksum", "container_checksum",
               "trailing", "truncated"}
Builds == {"debug", "release"}

BlteInputs ==
    LET payloads == {[i \in 1..n |-> 103 + i] : n \in 0..MaxPayload}
        chunks == [tag : {TagN, TagZ, 69}, payload : payloads]
        lists == UNION {[1..n -> chunks] : n \in 0..MaxChunks}
    IN  {[framed |-> TRUE, chunks |-> cs, fault |-> f] : cs \in lists, f \in BlteFaults}
        \cup {[framed |-> FALSE, chunks |-> <<c>>, fault |-> f] :
                c \in chunks, f \in {"none", "magic", "container_checksum", "trailing"}}

blte_blob(i) ==
    IF i.framed THEN blte_framed(i.chunks, i.fault) ELSE blte_unframed(i.chunks[1], i.fault)

InitBlte ==
    /\ pc = "blte_call"
    /\ cdn_prefixes = <<>>
    /\ throttle = Permits
    /\ fetches = [t \in Tasks |-> Idle]
    /\ \E i \in BlteInputs, b \in Builds :
          call = [input |-> i, data |-> blte_blob(i),
                  checksum |-> blte_checksum(blte_blob(i), i.fault), build |-> b]
    /\ ret = None
    /\ wire = <<>>
    /\ world = NoWorld
    /\ proc = NewProc
    /\ zips = None
    /\ failures = 0
    /\ cascdb = NoFiles

BlteParse ==
    /\ pc = "blte_call"
    /\ ret' = Some(parse(call.checksum, call.data, call.build))
    /\ pc' = "blte_returned"
    /\ UNCHANGED <<cdn_prefixes, throttle, fetches, call, wire, world, proc, zips, failures, cascdb>>

NextBlte == BlteParse

SpecBlte == InitBlte /\ [][NextBlte]_vars

---------------------------------------------------------------------------
(* archive.rs: parse_index on the bytes of an index.  The footer (28
   bytes) and the table of contents (24 bytes per block: the last keys,
   then the block hashes) are bytes; a block of 4096 bytes is the
   sequence of its 170 entries of 24 bytes (16 bytes are left over), an
   entry the record of its key, size and offset.  len is "short" for
   fewer than 28 bytes and "ragged" when what precedes the footer is not
   a multiple of 4096 + 24 bytes. *)
BlockBytes == 4096
EntryBytes == 24
SlotsPerBlock == BlockBytes \div EntryBytes

(* Buf::get_u32_le and the like: the little-endian value of the bytes. *)
RECURSIVE le(_)
le(b) == IF b = <<>> THEN 0 ELSE b[1] + 256 * le(Tail(b))

(* (util::md5hash(..) >> 64) as u64: the upper half of the digest. *)
upper64(digest) == Slice(digest, 0, 8)

(* util::md5hash of the 4096 bytes of a block: the checksum that stands
   for MD5, taken over the entries (the sum of the weighted entries is
   the cardinality of the bag that holds slot i that many times). *)
block_md5hash(block) ==
    CHOOSE digest \in
      { [i \in 1..KeyBytes |-> (Len(block) + i * s + 7 * i) % 256] :
          s \in {BagCardinality(
                    [i \in 1..Len(block) |->
                        1 + i * (block[i].ekey[1] + block[i].ekey[KeyBytes]
                                 + block[i].size + block[i].offset)])} } : TRUE

(* Mutant: HashMap::insert alone, a later entry replacing an earlier. *)
insert_overwriting(map, block, i) == TRUE

(* ensure!(map.insert(ekey, ..).is_none(), "duplicate key in index") for
   entry i of a block: the map, which holds the entries before i of the
   block by then, does not hold its key. *)
insert_is_none(map, block, i) ==
    /\ ~Has(map, block[i].ekey)
    /\ \A h \in 1..(i - 1) : block[h].ekey # block[i].ekey

(* `while block.remaining() >= 24`: the slot at which the loop over a
   block ends, the first whose key is in the map already or is last_ekey;
   0 when the loop runs to the end of the block. *)
first_stop(block, last_ekey, map) ==
    CHOOSE r \in
      { IF stops = {} THEN 0 ELSE CHOOSE i \in stops : \A h \in stops : i <= h :
          stops \in {{i \in 1..Len(block) :
                        \/ block[i].ekey = last_ekey
                        \/ ~insert_is_none(map, block, i)}} } : TRUE

(* The loop over a block: it ends at slot stop, on an entry whose key is
   in the map already (dup), on the entry of last_ekey (found), or at the
   end of the block. *)
read_entries(block, last_ekey, map) ==
    CHOOSE r \in
      { [found |-> at # 0 /\ insert_is_none(map, block, at),
         dup |-> at # 0 /\ ~insert_is_none(map, block, at),
         stop |-> IF at = 0 THEN Len(block) ELSE at] :
          at \in {first_stop(block, last_ekey, map)} } : TRUE

(* Mutant: the block is read to its end, past the last key. *)
read_whole_block(block, last_ekey, map) ==
    LET r == read_entries(block, <<>>, map)
    IN  [r EXCEPT !.found = ~r.dup /\ \E i \in 1..Len(block) : block[i].ekey = last_ekey]

(* The loop over a block, as parse_index runs it. *)
read_to_last_ekey(block, last_ekey, map) == read_entries(block, last_ekey, map)

(* map.insert(ekey, (name, size, offset)) for the entries 1..stop of a
   block, a later entry replacing an earlier one of the same key. *)
inserted(block, stop, name, map) ==
    LET latest(k) == CHOOSE i \in {h \in 1..stop : block[h].ekey = k} :
                        \A h \in {g \in 1..stop : block[g].ekey = k} : h <= i
    IN  [k \in DOMAIN map \cup {block[h].ekey : h \in 1..stop} |->
            IF \E i \in 1..stop : block[i].ekey = k
            THEN [archive |-> name, size |-> block[latest(k)].size,
                  offset |-> block[latest(k)].offset]
            ELSE map[k]]

(* Mutant: the number of entries is not compared with the footer's. *)
count_unchecked(map, num_elements) == TRUE

(* ensure!(map.len() == num_elements, "num_elements wrong in index") *)
count_checked(map, num_elements) == Cardinality(DOMAIN map) = num_elements

(* `for _ in 0..num_blocks`, from block k on. *)
RECURSIVE parse_index_blocks(_, _, _, _, _)
parse_index_blocks(data, k, name, num_elements, map) ==
    LET n == Len(data.blocks)
    IN  IF k > n
        THEN IF ~count_checked(map, num_elements) THEN Err("num_elements wrong in index")
             ELSE Ok([map |-> map])
        ELSE IF upper64(block_md5hash(data.blocks[k]))
                  # Slice(data.toc, 16 * n + 8 * (k - 1), 16 * n + 8 * k)
        THEN Err("archive index block checksum")
        ELSE CHOOSE result \in UNION
               { { IF r.dup THEN Err("duplicate key in index")
                   ELSE IF ~r.found THEN Err("last ekey mismatch")
                   ELSE parse_index_blocks(data, k + 1, name, num_elements, m) :
                     m \in {IF r.found THEN inserted(data.blocks[k], r.stop, name, map)
                            ELSE map} } :
                   r \in {read_to_last_ekey(data.blocks[k],
                                            Slice(data.toc, 16 * (k - 1), 16 * k), map)} } : TRUE

(* archive::parse_index *)
parse_index_data(name, data) ==
    LET footer == data.footer
    IN  IF data.len = "short" THEN Err("truncated archive index data")
        ELSE IF data.len = "ragged" THEN Err("invalid archive index format")
        ELSE IF md5hash(footer) # name THEN Err("bad footer name")
        ELSE IF upper64(md5hash(data.toc)) # Slice(footer, 0, 8)
        THEN Err("archive index toc checksum")
        ELSE IF footer[9] # 1 THEN Err("unexpected archive index version")
        ELSE IF footer[10] # 0 \/ footer[11] # 0
        THEN Err("unexpected archive index nonzero byte")
        ELSE IF footer[12] # 4 THEN Err("unexpected archive index block size")
        ELSE IF footer[13] # 4 THEN Err("unexpected archive index offset bytes")
        ELSE IF footer[14] # 4 THEN Err("unexpected archive index size bytes")
        ELSE IF footer[15] # 16 THEN Err("unexpected archive index key size")
        ELSE IF footer[16] # 8 THEN Err("unexpected archive index checksum size")
        ELSE IF upper64(md5hash(Slice(footer, 8, 20) \o [i \in 1..8 |-> 0]))
                  # Slice(footer, 20, 28)
        THEN Err("archive index footer checksum")
        ELSE parse_index_blocks(data, 1, name, le(Slice(footer, 16, 20)), [k \in {} |-> 0])

---------------------------------------------------------------------------
(* One call of archive::parse_index.  An input lists the blocks of an
   index (the keys of its entries, the last key its table of contents
   records, what fills the remaining slots), whether the footer counts one
   entry too many, and a fault; index_data writes the index an input
   describes. *)
MaxBlocks == 2
IndexInputs ==
    LET absent == 9
        blocks == {[keys |-> <<1>>, last |-> 1, fill |-> "zero"],
                   [keys |-> <<2>>, last |-> 2, fill |-> "zero"],
                   [keys |-> <<1, 2>>, last |-> 2, fill |-> "zero"],
                   [keys |-> <<1, 2>>, last |-> 1, fill |-> "zero"],
                   [keys |-> <<3, 4>>, last |-> 4, fill |-> "zero"],
                   [keys |-> <<1, 1>>, last |-> 2, fill |-> "zero"],
                   [keys |-> <<2>>, last |-> absent, fill |-> "zero"],
                   [keys |-> <<1>>, last |-> absent, fill |-> "fresh"]}
        lists == UNION {[1..n -> blocks] : n \in 0..MaxBlocks}
        faults == {"none", "short", "ragged", "name", "toc_checksum", "version", "nonzero",
                   "block_size", "offset_bytes", "size_bytes", "key_size", "checksum_size",
                   "footer_checksum", "block_checksum"}
    IN  {[blocks |-> bs, miscount |-> m, fault |-> "none"] : bs \in lists, m \in 0..1}
        \cup {[blocks |-> bs, miscount |-> 0, fault |-> f] :
                 bs \in {<<>>, <<[keys |-> <<1, 2>>, last |-> 2, fill |-> "zero"]>>},
                 f \in faults}

(* The entries of block j of an input: its keys, then the filling. *)
index_block(j, b) ==
    [i \in 1..SlotsPerBlock |->
        IF i <= Len(b.keys) THEN [ekey |-> U128(0, b.keys[i]), size |-> i, offset |-> 10 * j + i]
        ELSE IF b.fill = "zero" THEN [ekey |-> U128(0, 0), size |-> 0, offset |-> 0]
        ELSE [ekey |-> U128(i, 100 + j), size |-> 1, offset |-> i]]

(* The number of entries a block holds up to its last key. *)
index_block_count(b) ==
    IF \E i \in 1..Len(b.keys) : b.keys[i] = b.last
    THEN CHOOSE i \in 1..Len(b.keys) :
            b.keys[i] = b.last /\ \A h \in 1..(i - 1) : b.keys[h] # b.last
    ELSE Len(b.keys)

index_data(input) ==
    CHOOSE data \in UNION
      { { LET n == Len(input.blocks)
              toc == Concat([j \in 1..n |-> U128(0, input.blocks[j].last)])
                     \o Concat(hashes)
              count == SumSeq([j \in 1..n |-> index_block_count(input.blocks[j])])
                       + input.miscount
              fields == << IF input.fault = "version" THEN 2 ELSE 1,
                           IF input.fault = "nonzero" THEN 1 ELSE 0, 0,
                           IF input.fault = "block_size" THEN 8 ELSE 4,
                           IF input.fault = "offset_bytes" THEN 5 ELSE 4,
                           IF input.fault = "size_bytes" THEN 2 ELSE 4,
                           IF input.fault = "key_size" THEN 9 ELSE 16,
                           IF input.fault = "checksum_size" THEN 16 ELSE 8 >>
                        \o [i \in 1..4 |-> (count \div (256 ^ (i - 1))) % 256]
              toc_hash == upper64(md5hash(toc))
              footer_hash == upper64(md5hash(fields \o [i \in 1..8 |-> 0]))
          IN  [len |-> IF input.fault \in {"short", "ragged"} THEN input.fault ELSE "full",
               blocks |-> blocks,
               toc |-> toc,
               footer |-> (IF input.fault = "toc_checksum"
                           THEN [i \in 1..8 |-> 255 - toc_hash[i]] ELSE toc_hash)
                          \o fields
                          \o (IF input.fault = "footer_checksum"
                              THEN [i \in 1..8 |-> 255 - footer_hash[i]] ELSE footer_hash)] :
            hashes \in {[j \in 1..Len(blocks) |->
                           IF input.fault = "block_checksum"
                           THEN [i \in 1..8 |-> 255 - upper64(block_md5hash(blocks[j]))[i]]
                           ELSE upper64(block_md5hash(blocks[j]))]} } :
          blocks \in {[j \in 1..Len(input.blocks) |-> index_block(j, input.blocks[j])]} } : TRUE

(* The name an index is fetched under: the digest of its footer. *)
index_name(data, fault) ==
    IF fault = "name" THEN [i \in 1..KeyBytes |-> 255 - md5hash(data.footer)[i]]
    ELSE md5hash(data.footer)

InitIndex ==
    /\ pc = "index_call"
    /\ cdn_prefixes = <<>>
    /\ throttle = Permits
    /\ fetches = [t \in Tasks |-> Idle]
    /\ \E i \in IndexInputs :
          \E d \in {index_data(i)} :
             call = [input |-> i, data |-> d, name |-> index_name(d, i.fault)]
    /\ ret = None
    /\ wire = <<>>
    /\ world = NoWorld
    /\ proc = NewProc
    /\ zips = None
    /\ failures = 0
    /\ cascdb = NoFiles

IndexParse ==
    /\ pc = "index_call"
    /\ ret' = Some(parse_index_data(call.name, call.data))
    /\ pc' = "index_returned"
    /\ UNCHANGED <<cdn_prefixes, throttle, fetches, call, wire, world, proc, zips, failures, cascdb>>

NextIndex == IndexParse

SpecIndex == InitIndex /\ [][NextIndex]_vars

---------------------------------------------------------------------------
(* encoding.rs: parse on the bytes of an encoding table.  After the
   header of 22 bytes come the espec table, the directory of the content
   pages (32 bytes a page: first key, digest), the content pages, the
   directory of the encoding pages, the encoding pages and a last espec. *)
MagicEN == <<69, 78>>
PageUnit == 1024
AsciiZero == 48
ContentEntryBytes == 22
EncodingEntryBytes == 25

(* Mutant: the first entry of a page is not compared with the directory. *)
first_key_unchecked(first, first_key, key) == TRUE

(* ensure!(!first || first_key == ckey, "first key mismatch in content") *)
first_key_checked(first, first_key, key) == ~first \/ first_key = key

(* The offsets a loop over a page visits from pos on, next giving the
   offset after the entry at an offset, or the offset itself where the
   loop ends. *)
RECURSIVE entry_offsets(_, _)
entry_offsets(next, pos) ==
    IF next[pos] = pos THEN <<>> ELSE <<pos>> \o entry_offsets(next, next[pos])

(* `while page.remaining() >= 22 && page.chunk()[0] != b'0'` on a content
   page: an entry is its key_count byte, 5 bytes of file size, the content
   key and key_count encoding keys; the entries read are appended to
   entries as pairs of the content key and (encoding keys, file size). *)
content_entries(page, first_key, entries) ==
    CHOOSE result \in UNION
      { { IF /\ Len(page) >= ContentEntryBytes
             /\ page[1] # AsciiZero
             /\ ~first_key_checked(TRUE, first_key, Slice(page, 6, ContentEntryBytes))
          THEN Err("first key mismatch in content")
          ELSE IF \E q \in {IF at = <<>> THEN 0 ELSE next[at[Len(at)]]} :
                    /\ Len(page) - q >= ContentEntryBytes
                    /\ page[q + 1] # AsciiZero
          THEN Err("Condition failed: page.remaining() >= key_count * 16_usize")
          ELSE Ok(entries \o
                  [n \in 1..Len(at) |->
                     << Slice(page, at[n] + 6, at[n] + ContentEntryBytes),
                        [ekeys |-> [j \in 1..page[at[n] + 1] |->
                                      Slice(page, at[n] + ContentEntryBytes + 16 * (j - 1),
                                            at[n] + ContentEntryBytes + 16 * j)],
                         size |-> be(Slice(page, at[n] + 1, at[n] + 6))] >>]) :
            at \in {entry_offsets(next, 0)} } :
          next \in {[q \in 0..Len(page) |->
                      IF /\ Len(page) - q >= ContentEntryBytes
                         /\ page[q + 1] # AsciiZero
                         /\ Len(page) - (q + ContentEntryBytes) >= page[q + 1] * 16
                      THEN q + ContentEntryBytes + page[q + 1] * 16
                      ELSE q]} } : TRUE

(* `while page.remaining() >= 25 && page.chunk()[0] != b'0'` on an
   encoding page: the entries are 25 bytes each, so the loop reads those
   before the first slot that starts with b'0' or does not fit. *)
encoding_entries(page, first_key) ==
    CHOOSE result \in
      { IF n > 0 /\ ~first_key_checked(TRUE, first_key, Slice(page, 0, 16))
        THEN Err("first key mismatch in content")
        ELSE Ok([j \in 1..n |->
                   << Slice(page, EncodingEntryBytes * (j - 1), EncodingEntryBytes * (j - 1) + 16),
                      [index |-> be(Slice(page, EncodingEntryBytes * (j - 1) + 16,
                                          EncodingEntryBytes * (j - 1) + 20)),
                       size |-> be(Slice(page, EncodingEntryBytes * (j - 1) + 20,
                                         EncodingEntryBytes * j))] >>]) :
          n \in {CHOOSE i \in 0..(Len(page) \div EncodingEntryBytes) :
                   /\ \/ EncodingEntryBytes * (i + 1) > Len(page)
                      \/ page[EncodingEntryBytes * i + 1] = AsciiZero
                   /\ \A h \in 0..(i - 1) : page[EncodingEntryBytes * h + 1] # AsciiZero} } : TRUE

(* `for (first_key, hash) in cpages` (content = TRUE) or `in epages`: the
   pages k..count, whose directory is at dir and which start at at; the
   entries read are appended to entries. *)
RECURSIVE parse_pages(_, _, _, _, _, _, _, _)
parse_pages(data, content, dir, at, pagesize, k, count, entries) ==
    IF k > count THEN Ok(entries)
    ELSE IF Len(data) - (at + pagesize * (k - 1)) < pagesize
    THEN Panic("range end index out of range")
    ELSE CHOOSE result \in UNION
           { { IF md5hash(page) # Slice(data, dir + 32 * (k - 1) + 16, dir + 32 * k)
               THEN Err(IF content THEN "content page checksum" ELSE "encoding page checksum")
               ELSE IF read.kind # "ok" THEN read
               ELSE parse_pages(data, content, dir, at, pagesize, k + 1, count, read.val) :
                 read \in {IF content
                           THEN content_entries(page,
                                                Slice(data, dir + 32 * (k - 1),
                                                      dir + 32 * (k - 1) + 16), entries)
                           ELSE LET r == encoding_entries(page,
                                                          Slice(data, dir + 32 * (k - 1),
                                                                dir + 32 * (k - 1) + 16))
                                IN  IF r.kind = "ok" THEN Ok(entries \o r.val) ELSE r} } :
               page \in {Slice(data, at + pagesize * (k - 1), at + pagesize * k)} } : TRUE

(* encoding::parse past the header, h being the header's fields. *)
parse_tables(data, h) ==
    LET cdir == 22 + h.espec_size
        cat == cdir + 32 * h.ccount
        edir == cat + h.cpagekb * PageUnit * h.ccount
        eat == edir + 32 * h.ecount
    IN  IF Len(data) - 22 < h.espec_size THEN Err("truncated espec table")
        ELSE IF from_utf8(Slice(data, 22, cdir)).kind # "ok" THEN Err("parsing encoding espec")
        ELSE IF Len(data) - cdir < h.ccount * 32
        THEN Err("Condition failed: p.remaining() >= ccount * 32")
        ELSE CHOOSE result \in UNION
               { { IF c.kind # "ok" THEN c
                   ELSE IF Len(data) - edir < h.ecount * 32
                   THEN Err("Condition failed: p.remaining() >= ecount * 32")
                   ELSE IF e.kind # "ok" THEN e
                   ELSE IF from_utf8(Slice(data, eat + h.epagekb * PageUnit * h.ecount,
                                           Len(data))).kind # "ok"
                   THEN Err("invalid utf-8 sequence")
                   ELSE Ok([cmap |-> collect(c.val), emap |-> collect(e.val)]) :
                     e \in {IF c.kind = "ok" /\ Len(data) - edir >= h.ecount * 32
                            THEN parse_pages(data, FALSE, edir, eat, h.epagekb * PageUnit,
                                             1, h.ecount, <<>>)
                            ELSE c} } :
                   c \in {parse_pages(data, TRUE, cdir, cat, h.cpagekb * PageUnit,
                                      1, h.ccount, <<>>)} } : TRUE

(* encoding::parse *)
parse_encoding(data) ==
    IF Len(data) < 16 THEN Err("truncated encoding header")
    ELSE IF Slice(data, 0, 2) # MagicEN THEN Err("not encoding format")
    ELSE IF data[3] # 1 THEN Err("unsupported encoding version")
    ELSE IF data[4] # 16 THEN Err("unsupported ckey hash size")
    ELSE IF data[5] # 16 THEN Err("unsupported ekey hash size")
    ELSE IF Len(data) < 18 THEN Panic("advance out of bounds")
    ELSE IF data[18] # 0 THEN Err("unexpected nonzero byte in header")
    ELSE IF Len(data) < 22 THEN Panic("advance out of bounds")
    ELSE parse_tables(data, [cpagekb |-> be(Slice(data, 5, 7)),
                             epagekb |-> be(Slice(data, 7, 9)),
                             ccount |-> be(Slice(data, 9, 13)),
                             ecount |-> be(Slice(data, 13, 17)),
                             espec_size |-> be(Slice(data, 18, 22))])

---------------------------------------------------------------------------
(* One call of encoding::parse, and of Encoding::c2e on what it returns.
   An input lists the content pages and the encoding pages of a table (the
   first key its directory records, the entries, the byte that fills the
   rest of the page) and a fault; encoding_data writes the table. *)
MaxPages == 2

EncodingInputs ==
    LET one(ckey, ekey) == [key_count |-> 1, size |-> 5, ckey |-> ckey, ekeys |-> <<ekey>>]
        cpages == {[first |-> 1, entries |-> <<one(1, 11)>>, fill |-> 0],
                   [first |-> 1, entries |-> <<one(1, 11)>>, fill |-> AsciiZero],
                   [first |-> 2, fill |-> AsciiZero,
                    entries |-> << [key_count |-> 2, size |-> 6, ckey |-> 2,
                                    ekeys |-> <<21, 22>>], one(3, 31) >>],
                   [first |-> 4, fill |-> 0,
                    entries |-> << [key_count |-> AsciiZero, size |-> 7, ckey |-> 4,
                                    ekeys |-> [j \in 1..AsciiZero |-> 40 + j]] >>],
                   [first |-> 9, entries |-> <<one(1, 11)>>, fill |-> AsciiZero],
                   [first |-> 0, entries |-> <<>>, fill |-> 0]}
        epage(first, fill) == [first |-> first, fill |-> fill,
                               entries |-> <<[ekey |-> 11, index |-> 0, size |-> 5]>>]
        epages == {<<>>, <<epage(11, AsciiZero)>>, <<epage(11, 0)>>, <<epage(9, AsciiZero)>>}
        faults == {"none", "truncated", "short_header", "magic", "version", "ckey_size",
                   "ekey_size", "nonzero", "espec_size", "espec", "cdir", "cpage_checksum",
                   "epage_checksum", "short_page", "last_espec"}
    IN  {[cpages |-> cs, epages |-> es, fault |-> "none"] :
            cs \in UNION {[1..n -> cpages] : n \in 0..MaxPages}, es \in epages}
        \cup {[cpages |-> <<[first |-> 1, entries |-> <<one(1, 11)>>, fill |-> AsciiZero]>>,
               epages |-> <<epage(11, AsciiZero)>>, fault |-> f] : f \in faults}

(* The bytes of a page: its entries, then the filling. *)
page_bytes(entries, fill) ==
    CHOOSE page \in { b \o [i \in 1..(PageUnit - Len(b)) |-> fill] : b \in {Concat(entries)} } :
        TRUE

content_page(d) ==
    page_bytes([i \in 1..Len(d.entries) |->
                   <<d.entries[i].key_count>> \o be_bytes(d.entries[i].size, 5)
                   \o U128(0, d.entries[i].ckey)
                   \o Concat([j \in 1..Len(d.entries[i].ekeys) |->
                                 U128(0, d.entries[i].ekeys[j])])],
               d.fill)

encoding_page(d) ==
    page_bytes([i \in 1..Len(d.entries) |->
                   U128(0, d.entries[i].ekey) \o be_bytes(d.entries[i].index, 4)
                   \o be_bytes(d.entries[i].size, 5)],
               d.fill)

encoding_data(input) ==
    CHOOSE data \in UNION
      { { LET f == input.fault
              flip(digest) == [i \in 1..KeyBytes |-> 255 - digest[i]]
              directory(ds, pages, bad) ==
                  Concat([k \in 1..Len(ds) |->
                             U128(0, ds[k].first)
                             \o (IF bad THEN flip(md5hash(pages[k])) ELSE md5hash(pages[k]))])
              whole ==
                  (IF f = "magic" THEN <<69, 69>> ELSE MagicEN)
                  \o << IF f = "version" THEN 2 ELSE 1,
                        IF f = "ckey_size" THEN 20 ELSE 16,
                        IF f = "ekey_size" THEN 20 ELSE 16 >>
                  \o be_bytes(1, 2) \o be_bytes(1, 2)
                  \o be_bytes(Len(cp) + (IF f = "cdir" THEN 100 ELSE 0), 4)
                  \o be_bytes(Len(ep), 4)
                  \o << IF f = "nonzero" THEN 1 ELSE 0 >>
                  \o be_bytes(IF f = "espec" THEN 1 ELSE IF f = "espec_size" THEN 9999 ELSE 0, 4)
                  \o (IF f = "espec" THEN <<255>> ELSE <<>>)
                  \o directory(input.cpages, cp, f = "cpage_checksum")
                  \o Concat(cp)
                  \o directory(input.epages, ep, f = "epage_checksum")
                  \o Concat(ep)
                  \o (IF f = "last_espec" THEN <<255>> ELSE <<98, 58, 123, 125>>)
          IN  IF f = "truncated" THEN SubSeq(whole, 1, 10)
              ELSE IF f = "short_header" THEN SubSeq(whole, 1, 20)
              ELSE IF f = "short_page" THEN SubSeq(whole, 1, Len(whole) - 100)
              ELSE whole :
            cp \in {[k \in 1..Len(input.cpages) |-> content_page(input.cpages[k])]} } :
          ep \in {[k \in 1..Len(input.epages) |-> encoding_page(input.epages[k])]} } : TRUE

InitEncoding ==
    /\ pc = "encoding_call"
    /\ cdn_prefixes = <<>>
    /\ throttle = Permits
    /\ fetches = [t \in Tasks |-> Idle]
    /\ \E i \in EncodingInputs : call = [input |-> i, data |-> encoding_data(i)]
    /\ ret = None
    /\ wire = <<>>
    /\ world = NoWorld
    /\ proc = NewProc
    /\ zips = None
    /\ failures = 0
    /\ cascdb = NoFiles

EncodingParse ==
    /\ pc = "encoding_call"
    /\ ret' = Some(parse_encoding(call.data))
    /\ pc' = "encoding_returned"
    /\ UNCHANGED <<cdn_prefixes, throttle, fetches, call, wire, world, proc, zips, failures, cascdb>>

(* Encoding::c2e on the table parse returned, for a key of the table or
   for one no page holds. *)
EncodingC2e ==
    /\ pc = "encoding_returned"
    /\ ret[1].kind = "ok"
    /\ \E c \in DOMAIN ret[1].val.cmap \cup {U128(0, 99)} :
          /\ call' = [input |-> call.input, data |-> call.data,
                      encoding |-> ret[1].val, c |-> c]
          /\ ret' = Some(c2e(ret[1].val, c))
    /\ pc' = "c2e_returned"
    /\ UNCHANGED <<cdn_prefixes, throttle, fetches, wire, world, proc, zips, failures, cascdb>>

NextEncoding == EncodingParse \/ EncodingC2e

SpecEncoding == InitEncoding /\ [][NextEncoding]_vars

---------------------------------------------------------------------------
(* root.rs: parse on the bytes of a root table.  An i32 is kept as its two
   16-bit halves in two's complement, so that the additions of the
   program are exact in their width. *)
MagicTSFM == <<84, 83, 70, 77>>
Half == 65536

(* Buf::get_i32_le *)
get_i32_le(b) == [lo |-> b[1] + 256 * b[2], hi |-> b[3] + 256 * b[4]]

i32_negative(x) == x.hi >= Half \div 2

(* x + y of i32: with overflow checks ("debug") an overflow panics,
   without ("release") the sum wraps. *)
i32_add(x, y, build) ==
    LET sum == [lo |-> (x.lo + y.lo) % Half,
                hi |-> (x.hi + y.hi + (x.lo + y.lo) \div Half) % Half]
    IN  IF i32_negative(x) = i32_negative(y) /\ i32_negative(sum) # i32_negative(x)
           /\ build = "debug"
        THEN Panic("attempt to add with overflow")
        ELSE Ok(sum)

(* `fdid = fdid + p.get_i32_le() + 1; fdids.push(FileDataID(fdid.try_into()?))`
   for the deltas from the k-th on, fdid being the value before them. *)
RECURSIVE read_fdids(_, _, _, _, _)
read_fdids(deltas, k, fdid, build, fdids) ==
    IF k > Len(deltas) \div 4 THEN Ok(fdids)
    ELSE CHOOSE result \in UNION
           { { IF first.kind # "ok" THEN first
               ELSE IF second.kind # "ok" THEN second
               ELSE IF i32_negative(second.val)
               THEN Err("out of range integral type conversion attempted")
               ELSE read_fdids(deltas, k + 1, second.val, build,
                               Append(fdids, second.val.hi * Half + second.val.lo)) :
                 second \in {IF first.kind = "ok"
                             THEN i32_add(first.val, [lo |-> 1, hi |-> 0], build)
                             ELSE first} } :
               first \in {i32_add(fdid, get_i32_le(Slice(deltas, 4 * (k - 1), 4 * k)), build)} } :
           TRUE

(* Mutant: the name hashes of a flagged block are skipped whatever the
   header's counts. *)
skip_flagged(can_skip, flags) == (flags[4] \div 16) % 2 = 1

(* The negation of `!can_skip || content_flags & 0x10000000 == 0`,
   content_flags being 4 little-endian bytes. *)
skip_name_hashes(can_skip, flags) == can_skip /\ (flags[4] \div 16) % 2 = 1

(* The Buf::get_u64_le of 8 bytes, as the 8 big-endian bytes of the u64. *)
get_u64_le(b) == [i \in 1..Len(b) |-> b[Len(b) + 1 - i]]

(* `while p.has_remaining()`: the blocks from offset pos on, their records
   appended to result. *)
RECURSIVE root_blocks(_, _, _, _, _, _)
root_blocks(data, pos, interleave, can_skip, build, result) ==
    IF pos >= Len(data) THEN Ok(Root(result))
    ELSE IF Len(data) - pos < 12 THEN Err("truncated root cas block")
    ELSE CHOOSE r \in UNION
      { { IF Len(data) - (pos + 12) < 4 * n THEN Err("truncated filedataid delta block")
          ELSE IF fdids.kind # "ok" THEN fdids
          ELSE IF Len(data) - (pos + 12 + 4 * n)
                    < (IF interleave THEN 24 * n ELSE IF skip THEN 16 * n ELSE 24 * n)
          THEN Panic("advance out of bounds")
          ELSE root_blocks(data,
                           pos + 12 + 4 * n + (IF ~interleave /\ skip THEN 16 * n ELSE 24 * n),
                           interleave, can_skip, build,
                           result \o
                           [i \in 1..n |->
                              LET keys == pos + 12 + 4 * n
                              IN  IF interleave
                                  THEN [fdid |-> fdids.val[i],
                                        content_key |-> Slice(data, keys + 24 * (i - 1),
                                                              keys + 24 * (i - 1) + 16),
                                        name_hash |-> Some(get_u64_le(
                                                         Slice(data, keys + 24 * (i - 1) + 16,
                                                               keys + 24 * i)))]
                                  ELSE [fdid |-> fdids.val[i],
                                        content_key |-> Slice(data, keys + 16 * (i - 1),
                                                              keys + 16 * i),
                                        name_hash |->
                                            IF skip THEN None
                                            ELSE Some(get_u64_le(
                                                        Slice(data, keys + 16 * n + 8 * (i - 1),
                                                              keys + 16 * n + 8 * i)))]]) :
            fdids \in {IF Len(data) - (pos + 12) < 4 * n THEN Ok(<<>>)
                       ELSE read_fdids(Slice(data, pos + 12, pos + 12 + 4 * n), 1,
                                       [lo |-> Half - 1, hi |-> Half - 1], build, <<>>)} } :
          n \in {le(Slice(data, pos, pos + 4))},
          skip \in {skip_name_hashes(can_skip, Slice(data, pos + 4, pos + 8))} } : TRUE

(* root::parse *)
parse_root(data, build) ==
    IF Len(data) < 4 THEN Err("empty root?")
    ELSE IF Slice(data, 0, 4) = MagicTSFM
    THEN IF Len(data) - 4 < 8 THEN Err("truncated root header")
         ELSE root_blocks(data, 12, FALSE, Slice(data, 4, 8) # Slice(data, 8, 12), build, <<>>)
    ELSE root_blocks(data, 0, TRUE, FALSE, build, <<>>)

---------------------------------------------------------------------------
(* One call of root::parse.  An input gives the format of a root table
   ("legacy" without header, "tsfm_equal" and "tsfm_differ" with the
   header and its two counts equal or not), its blocks (whether bit
   0x10000000 of the content flags is set, and the deltas as 4 bytes
   each) and a fault; root_data writes the table as a writer does that
   leaves out the name hashes of exactly the flagged blocks of a table
   whose counts differ.  Record i of block b has the content key
   U128(b, i) and the name of the two letters 64 + b and 48 + i. *)
MaxRootBlocks == 2

RootInputs ==
    LET delta(v) == <<v % 256, 0, 0, 0>>
        max == <<255, 255, 255, 127>>
        min == <<0, 0, 0, 128>>
        minus2 == <<254, 255, 255, 255>>
        blocks == {[flagged |-> f, deltas |-> ds] :
                      f \in BOOLEAN,
                      ds \in {<<delta(0)>>, <<delta(5), delta(0)>>, <<max, delta(0)>>,
                              <<minus2>>, <<min>>}}
        lists == UNION {[1..n -> blocks] : n \in 0..MaxRootBlocks}
    IN  {[format |-> fm, blocks |-> bs, fault |-> "none"] :
            fm \in {"legacy", "tsfm_equal", "tsfm_differ"}, bs \in lists}
        \cup {[format |-> "tsfm_differ",
               blocks |-> <<[flagged |-> FALSE, deltas |-> <<delta(5), delta(0)>>]>>,
               fault |-> f] : f \in {"empty", "header", "block", "deltas", "keys"}}

RecordName(b, i) == <<64 + b, 48 + i>>

root_data(input) ==
    LET le4(v) == <<v % 256, (v \div 256) % 256, 0, 0>>
        skipped(b) == input.format = "tsfm_differ" /\ input.blocks[b].flagged
        n(b) == Len(input.blocks[b].deltas)
        hash(b, i) == get_u64_le(name_hash(RecordName(b, i)))
        block(b) ==
            le4(n(b)) \o <<0, 0, 0, IF input.blocks[b].flagged THEN 16 ELSE 0>> \o <<0, 0, 0, 0>>
            \o Concat(input.blocks[b].deltas)
            \o (IF input.format = "legacy"
                THEN Concat([i \in 1..n(b) |-> U128(b, i) \o hash(b, i)])
                ELSE Concat([i \in 1..n(b) |-> U128(b, i)])
                     \o (IF skipped(b) THEN <<>> ELSE Concat([i \in 1..n(b) |-> hash(b, i)])))
        total == SumSeq([b \in 1..Len(input.blocks) |-> n(b)])
        whole == (IF input.format = "legacy" THEN <<>>
                  ELSE MagicTSFM \o le4(total)
                       \o le4(IF input.format = "tsfm_differ" THEN total + 1 ELSE total))
                 \o Concat([b \in 1..Len(input.blocks) |-> block(b)])
    IN  IF input.fault = "empty" THEN SubSeq(whole, 1, 3)
        ELSE IF input.fault = "header" THEN SubSeq(whole, 1, 8)
        ELSE IF input.fault = "block" THEN whole \o <<1, 0, 0, 0, 0>>
        ELSE IF input.fault = "deltas" THEN SubSeq(whole, 1, 12 + 12 + 2)
        ELSE IF input.fault = "keys" THEN SubSeq(whole, 1, Len(whole) - 3)
        ELSE whole

InitRoot ==
    /\ pc = "root_call"
    /\ cdn_prefixes = <<>>
    /\ throttle = Permits
    /\ fetches = [t \in Tasks |-> Idle]
    /\ \E i \in RootInputs, b \in Builds :
          call = [input |-> i, data |-> root_data(i), build |-> b]
    /\ ret = None
    /\ wire = <<>>
    /\ world = NoWorld
    /\ proc = NewProc
    /\ zips = None
    /\ failures = 0
    /\ cascdb = NoFiles

RootParse ==
    /\ pc = "root_call"
    /\ ret' = Some(parse_root(call.data, call.build))
    /\ pc' = "root_returned"
    /\ UNCHANGED <<cdn_prefixes, throttle, fetches, call, wire, world, proc, zips, failures, cascdb>>

NextRoot == RootParse

SpecRoot == InitRoot /\ [][NextRoot]_vars

---------------------------------------------------------------------------
(* main.rs: parse_info and parse_config. *)

(* Mutant: the text is split at the last separator. *)
split_once_last(s, sep) ==
    LET at == {i \in 1..(Len(s) - Len(sep) + 1) : SubSeq(s, i, i + Len(sep) - 1) = sep}
    IN  IF at = {} THEN None
        ELSE LET i == CHOOSE k \in at : \A j \in at : j <= k
             IN  Some(<<SubSeq(s, 1, i - 1), SubSeq(s, i + Len(sep), Len(s))>>)

(* str::split_once(sep): the text before the first sep and the text after
   it, or None when s does not hold sep. *)
split_once(s, sep) ==
    LET at == {i \in 1..(Len(s) - Len(sep) + 1) : SubSeq(s, i, i + Len(sep) - 1) = sep}
    IN  IF at = {} THEN None
        ELSE LET i == CHOOSE k \in at : \A j \in at : k <= j
             IN  Some(<<SubSeq(s, 1, i - 1), SubSeq(s, i + Len(sep), Len(s))>>)

(* s.lines().filter_map(|x| x.split_once(" = ")).collect() *)
parse_config(s) ==
    collect(Concat([i \in 1..Len(lines(s)) |-> split_once(lines(s)[i], str(<<" ", "=", " ">>))]))

(* Mutant: the whole column is the tag. *)
schema_column(x) == x

(* |x| x.split('!').next().unwrap() *)
schema_tag(x) == split(x, code("!"))[1]

(* tags.iter().copied().zip(v).collect(): as many pairs as the shorter of
   the two has elements, collected into a HashMap. *)
zip_collect(tags, v) ==
    collect([i \in 1..(IF Len(tags) < Len(v) THEN Len(tags) ELSE Len(v)) |-> <<tags[i], v[i]>>])

(* parse_info: Ok(the Vec it returns), or the panic of unwrap() on an
   iterator of no lines. *)
parse_info(s) ==
    IF s = <<>> THEN Ok(<<>>)
    ELSE \* the value is computed once per call
         CHOOSE r \in { IF ls = <<>> THEN Panic("called Option::unwrap() on a None value")
                        ELSE Ok([j \in 1..(Len(ls) - 2) |->
                                    zip_collect([i \in 1..Len(split(ls[1], code("|"))) |->
                                                    schema_tag(split(ls[1], code("|"))[i])],
                                                split(ls[j + 2], code("|")))]) :
                        ls \in {lines(s)} } : TRUE

---------------------------------------------------------------------------
(* The functions over text, each called once on an input drawn from a
   bounded set.  A text is at most MaxLines lines of a menu, joined by
   "\n", with or without a final "\n"; a path is at most MaxSegments
   segments of a menu, joined by '\' or by '/'; a Root holds at most two
   named records, and the name looked up has at most MaxName characters. *)
MaxLines == 4
MaxSegments == 3
MaxName == 3

Texts(menu) ==
    {join(ls, <<code("\n")>>) \o end :
        ls \in UNION {[1..n -> menu] : n \in 0..MaxLines},
        end \in {<<>>, <<code("\n")>>}}

InfoLines ==
    {<<>>, str(<<"a">>), str(<<"a", "!", "x", "|", "b", "!", "y">>), str(<<"a", "|", "a">>),
     str(<<"x", "|", "y">>), str(<<"x", "|", "y", "|", "z">>)}

ConfigLines ==
    {<<>>, str(<<"f", "o", "o">>), str(<<"x", "=", "y">>), str(<<"a", " ", "=", " ", "b">>),
     str(<<"a", " ", "=", " ", "c">>), str(<<"b", " ", "=", " ", "c", " ", "=", " ", "d">>)}

Paths(menu, n) ==
    {join(segs, <<sep>>) : segs \in UNION {[1..k -> menu] : k \in 0..n},
                           sep \in {Backslash, Slash}}

PathSegments == {<<>>, str(<<"a">>), str(<<"b">>), str(<<".", ".">>)}

PathBases ==
    Paths(PathSegments, 1)
    \cup {str(<<"d", "i", "r", "\\", "a">>), str(<<"d", "/", "a">>),
          str(<<"a", "\\", "b", "/", "c">>), str(<<"a", "\\">>), str(<<"/", "a">>)}

Names(n) == UNION {[1..k -> {code("a"), code("B"), Slash, Backslash}] : k \in 0..n}

(* The records of a Root whose k-th record has the k-th name. *)
NamedRoot(names) ==
    Root([k \in 1..Len(names) |->
             [fdid |-> k, content_key |-> U128(1, k), name_hash |-> Some(name_hash(names[k]))]])

StoredNames ==
    {<<>>, <<str(<<"A", "\\", "B">>)>>, <<str(<<"A", "/", "B">>)>>,
     <<str(<<"A", "\\", "B">>), str(<<"A", "/", "B">>)>>, <<str(<<"B", "A">>)>>}

InitText ==
    /\ pc = "text_call"
    /\ cdn_prefixes = <<>>
    /\ throttle = Permits
    /\ fetches = [t \in Tasks |-> Idle]
    /\ \/ \E s \in Texts(InfoLines) : call = [fn |-> "parse_info", args |-> <<s>>]
       \/ \E s \in Texts(ConfigLines) : call = [fn |-> "parse_config", args |-> <<s>>]
       \/ \E base \in PathBases, file \in Paths(PathSegments, MaxSegments) :
             call = [fn |-> "normalize_path", args |-> <<base, file>>]
       \/ \E names \in StoredNames, s \in Names(MaxName) :
             call = [fn |-> "n2c", args |-> <<names, s>>]
    /\ ret = None
    /\ wire = <<>>
    /\ world = NoWorld
    /\ proc = NewProc
    /\ zips = None
    /\ failures = 0
    /\ cascdb = NoFiles

Returns(fn, value) ==
    /\ pc = "text_call"
    /\ call.fn = fn
    /\ ret' = Some(value)
    /\ pc' = "text_returned"
    /\ UNCHANGED <<cdn_prefixes, throttle, fetches, call, wire, world, proc, zips, failures, cascdb>>

CallParseInfo == Returns("parse_info", parse_info(call.args[1]))
CallParseConfig == Returns("parse_config", parse_config(call.args[1]))
CallNormalizePath == Returns("normalize_path", normalize_path(call.args[1], call.args[2]))
CallN2c == Returns("n2c", n2c(NamedRoot(call.args[1]), call.args[2]))

NextText == CallParseInfo \/ CallParseConfig \/ CallNormalizePath \/ CallN2c

SpecText == InitText /\ [][NextText]_vars

---------------------------------------------------------------------------
(* builddb: the cache under cascdb/ and CdnClient::fetch_cdn_or_file. *)

(* "cascdb/{tag}/{h[0..2]}/{h[2..4]}/{h}" as its parts. *)
db_path(tag, hash) ==
    [tag |-> tag, dir1 |-> SubSeq(hex032(hash), 1, 2), dir2 |-> SubSeq(hex032(hash), 3, 4),
     file |-> hex032(hash)]

(* parse_hash: u128::from_str_radix(s, 16) of 32 hex digits. *)
parse_hash(s) == [i \in 1..KeyBytes |-> 16 * s[2 * i - 1] + s[2 * i]]

(* Mutant: no file is ever found. *)
read_file_never(files, tag, hash) == Err("No such file or directory")

(* read_file *)
read_file(files, tag, hash) ==
    IF db_path(tag, hash) \in DOMAIN files THEN Ok(files[db_path(tag, hash)])
    ELSE Err("No such file or directory")

(* write_file under an outcome of the file system: the file is written;
   or a directory or the file cannot be created; or the file is created
   and the write fails, which leaves the bytes written so far (none). *)
write_file(files, tag, hash, bytes, outcome) ==
    IF outcome = "written"
    THEN [files |-> (db_path(tag, hash) :> bytes) @@ files, result |-> Ok(<<>>)]
    ELSE IF outcome = "created"
    THEN [files |-> (db_path(tag, hash) :> <<>>) @@ files, result |-> Err("writing file for")]
    ELSE [files |-> files, result |-> Err("writing file for")]

(* fetch_cdn_or_file from the response of fetch_cdn_bytes on:
   write_file(local_tag, hash, &bytes).await?; Ok(bytes) *)
fetched(files, local_tag, hash, bytes, outcome) ==
    CHOOSE r \in { [files |-> w.files,
                    result |-> IF w.result.kind = "ok" THEN Ok(bytes) ELSE w.result] :
                   w \in {write_file(files, local_tag, hash, bytes, outcome)} } : TRUE

(* fetch_config after fetch_cdn_or_file(..).await?:
   ensure!(hash == util::md5hash(&bytes)); Ok(from_utf8(&bytes)?.to_string()) *)
fetch_config_checked(hash, bytes) ==
    IF bytes.kind # "ok" THEN bytes
    ELSE IF hash # md5hash(bytes.val) THEN Err("Condition failed")
    ELSE from_utf8(bytes.val)

---------------------------------------------------------------------------
(* Driver of builddb's fetches: at most MaxDbCalls calls, one after the
   other, of fetch_config and of fetch_cdn_or_file with the arguments of
   fetch_archive_index and fetch_archive, on a cascdb/ that is empty at
   first and is kept from call to call (and so from run to run).  The CDN
   holds a config named after its MD5 and an index and an archive under
   one key; a response is what the CDN holds, or that with its last byte
   changed. *)
MaxDbCalls == 3

DbConfig == str(<<"a", " ", "=", " ", "b">>)
DbHeld(c) ==
    IF c.local_tag = "config" THEN DbConfig
    ELSE IF c.local_tag = "index" THEN <<1, 2, 3>>
    ELSE <<4, 5>>
DbResponses(c) == {DbHeld(c), [DbHeld(c) EXCEPT ![Len(DbHeld(c))] = (@ + 1) % 256]}

DbCalls ==
    {[fn |-> "fetch_config", cdn_tag |-> "config", hash |-> md5hash(DbConfig),
      suffix |-> None, local_tag |-> "config"],
     [fn |-> "fetch_cdn_or_file", cdn_tag |-> "data", hash |-> ArchiveKey(1),
      suffix |-> Some(".index"), local_tag |-> "index"],
     [fn |-> "fetch_cdn_or_file", cdn_tag |-> "data", hash |-> ArchiveKey(1),
      suffix |-> None, local_tag |-> "archive"]}

InitBuilddb ==
    /\ pc = "db_idle"
    /\ \E n \in 1..MaxHosts : cdn_prefixes = [i \in 1..n |-> i]
    /\ throttle = Permits
    /\ fetches = [t \in Tasks |-> Idle]
    /\ call = [nth |-> 0]
    /\ ret = None
    /\ wire = <<>>
    /\ world = NoWorld
    /\ proc = NewProc
    /\ zips = None
    /\ failures = 0
    /\ cascdb = NoFiles

(* The call c is made.  fetch_cdn_or_file returns the bytes of the cache
   file if read_file gives them; else fetch_cdn_bytes sends its first
   request. *)
DbCall(c) ==
    /\ pc \in {"db_idle", "db_returned"}
    /\ call.nth < MaxDbCalls
    /\ call' = [fn |-> c.fn, cdn_tag |-> c.cdn_tag, hash |-> c.hash, suffix |-> c.suffix,
                local_tag |-> c.local_tag, nth |-> call.nth + 1]
    /\ \E r \in {read_file(cascdb, c.local_tag, c.hash)} :
          IF r.kind = "ok"
          THEN /\ ret' = Some(r)
               /\ pc' = "db_file_returned"
               /\ wire' = <<>>
               /\ UNCHANGED <<fetches, throttle>>
          ELSE \E f \in {fetch_cdn_bytes(cdn_prefixes, c.cdn_tag, c.hash, c.suffix, None)} :
                  /\ throttle > 0
                  /\ throttle' = fetch_bytes_throttle(throttle)
                  /\ fetches' = [fetches EXCEPT ![Main] = f]
                  /\ wire' = Logged(<<>>, f)
                  /\ ret' = None
                  /\ pc' = "db_wait"
    /\ UNCHANGED <<cdn_prefixes, world, proc, zips, failures, cascdb>>

(* The request fails: fetch_cdn_bytes goes on to its next request, or
   returns its error, which fetch_cdn_or_file propagates. *)
DbRequestFails ==
    /\ pc = "db_wait"
    /\ Sends(fetches[Main])
    /\ \E f \in {fetch_failed(cdn_prefixes, fetches[Main])} :
          /\ Sends(f) => throttle > 0
          /\ throttle' = IF Sends(f) THEN fetch_bytes_throttle(throttle) ELSE throttle
          /\ fetches' = [fetches EXCEPT ![Main] = IF Sends(f) THEN f ELSE Idle]
          /\ wire' = Logged(Settled(wire, "err", None), f)
          /\ pc' = IF Sends(f) THEN "db_wait" ELSE "db_file_returned"
          /\ ret' = IF Sends(f) THEN ret
                    ELSE Some([kind |-> "err", val |-> f.error[1].path, msg |-> f.error[1].msg])
    /\ UNCHANGED <<cdn_prefixes, call, world, proc, zips, failures, cascdb>>

(* The request succeeds with data: the bytes are written to the cache
   file and returned. *)
DbResponse(data, outcome) ==
    /\ pc = "db_wait"
    /\ Sends(fetches[Main])
    /\ \E w \in {fetched(cascdb, call.local_tag, call.hash, data, outcome)} :
          /\ cascdb' = w.files
          /\ ret' = Some(w.result)
    /\ wire' = Settled(wire, "ok", Some(data))
    /\ fetches' = [fetches EXCEPT ![Main] = Idle]
    /\ pc' = "db_file_returned"
    /\ UNCHANGED <<cdn_prefixes, throttle, call, world, proc, zips, failures>>

(* fetch_cdn_or_file has returned: to builddb, or to fetch_config, which
   checks the bytes and returns the text. *)
DbReturn ==
    /\ pc = "db_file_returned"
    /\ ret' = IF call.fn = "fetch_config" THEN Some(fetch_config_checked(call.hash, ret[1]))
              ELSE ret
    /\ pc' = "db_returned"
    /\ UNCHANGED <<cdn_prefixes, throttle, fetches, call, wire, world, proc, zips, failures,
                   cascdb>>

NextBuilddb ==
    \/ \E c \in DbCalls : DbCall(c)
    \/ DbRequestFails
    \/ \E data \in (IF pc = "db_wait" THEN DbResponses(call) ELSE {}),
          outcome \in {"written", "uncreated", "created"} : DbResponse(data, outcome)
    \/ DbReturn

SpecBuilddb == InitBuilddb /\ [][NextBuilddb]_vars

---------------------------------------------------------------------------
(* process: its environment.  A world is a deviation of the CDN, the
   number of hosts that the cdns file lists, the number of archives that
   the CDN config lists, and the build profile.  The consistent CDN is
   explored with every number of hosts and archives; a deviation with one
   host and two archives, and in both builds where it makes the arithmetic
   overflow.  cdn is what the hosts of that world hold.  The requests of a
   pass that fail are at most MaxLoad divided by the number of archives. *)
Worlds ==
    {[dev |-> w.dev, hosts |-> w.hosts, archives |-> w.archives, build |-> w.build,
      cdn |-> Cdn[w.dev]] :
        w \in {v \in [dev : Deviations, hosts : 1..MaxHosts,
                      archives : 1..MaxArchives, build : Builds] :
                  /\ v.dev = "none" \/ (v.hosts = 1 /\ v.archives = 2)
                  /\ v.build = "debug" \/ v.dev = "empty_entry"}}
Budget(w) == MaxLoad \div w.archives

(* product_suffix, and product_slug *)
product_suffix(product) ==
    IF product = "Vanilla" THEN str(<<"V", "a", "n", "i", "l", "l", "a">>)
    ELSE IF product = "TBC" THEN str(<<"T", "B", "C">>)
    ELSE str(<<"M", "a", "i", "n", "l", "i", "n", "e">>)

product_slug(product, ptr) ==
    IF product = "Vanilla" THEN (IF ptr THEN "wow_classic_era_ptr" ELSE "wow_classic_era")
    ELSE IF product = "TBC" THEN (IF ptr THEN "wow_classic_ptr" ELSE "wow_classic")
    ELSE (IF ptr THEN "wowt" ELSE "wow")

(* What the hosts serve.  The body of a config, index, encoding or root
   object is kept abstract: the object it is, and whether it arrived
   intact; the body of a ranged archive request is its bytes. *)
Body(obj, bytes) == [obj |-> obj, intact |-> TRUE, bytes |-> bytes]

ArchiveNumber(w, hash) ==
    IF \E k \in 1..w.archives : ArchiveKey(k) = hash
    THEN CHOOSE k \in 1..w.archives : ArchiveKey(k) = hash
    ELSE 0

(* The body a host holds for the request of f, if any: a ranged request
   gets the bytes start..=end of the archive, as many as there are. *)
Served(w, f) ==
    LET k == ArchiveNumber(w, f.hash)
        plain == f.suffix = None /\ f.range = None
    IN  IF f.tag = "config" /\ f.hash = CdnConfigHash /\ plain
        THEN Some(Body("cdn_config", <<>>))
        ELSE IF f.tag = "config" /\ f.hash = BuildConfigHash /\ plain
        THEN Some(Body("build_config", <<>>))
        ELSE IF f.tag = "data" /\ f.hash = EncodingEKey /\ plain
        THEN Some(Body("encoding", <<>>))
        ELSE IF f.tag = "data" /\ f.hash = RootEKey /\ plain
        THEN Some(Body("root", <<>>))
        ELSE IF f.tag = "data" /\ k > 0 /\ f.suffix = Some(".index") /\ f.range = None
        THEN Some(Body("index", <<>>))
        ELSE IF f.tag = "data" /\ k > 0 /\ f.suffix = None /\ f.range # None
        THEN LET bytes == w.cdn.archives[k]
                 start == f.range[1][1]
                 end == f.range[1][2]
             IN  IF start >= Len(bytes) \/ end < start THEN None
                 ELSE Some(Body("range", Slice(bytes, start,
                                               IF end + 1 < Len(bytes) THEN end + 1
                                               ELSE Len(bytes))))
        ELSE None

(* What may arrive for it: that body, or a damaged one.  A damaged range
   is another stored blob, the bytes and one more, or the bytes with the
   last one changed. *)
Damaged(w, b) ==
    {IF b = w.cdn.blobs[1] THEN w.cdn.blobs[2] ELSE w.cdn.blobs[1],
     b \o <<0>>,
     [b EXCEPT ![Len(b)] = (b[Len(b)] + 1) % 256]}

Arrivals(w, body) ==
    IF body.obj # "range" THEN {body, [body EXCEPT !.intact = FALSE]}
    ELSE {body} \cup {[obj |-> "range", intact |-> FALSE, bytes |-> d] :
                         d \in Damaged(w, body.bytes)}

Responses(w, f) ==
    IF ~Sends(f) THEN {}
    ELSE UNION {Arrivals(w, body) : body \in {Served(w, f)[i] : i \in 1..Len(Served(w, f))}}

(* The parsers of the abstract bodies: the table the CDN holds, or the
   parser's first error. *)
parse_cdn_config(w, body) ==
    IF body.intact THEN Ok([k \in 1..w.archives |-> ArchiveKey(k)])
    ELSE Err("missing archives in cdninfo")

parse_build_config(w, body) ==
    IF body.intact THEN Ok([root |-> RootCKey, encoding |-> EncodingEKey])
    ELSE Err("build config: root")

parse_index(w, name, body) ==
    IF body.intact /\ ArchiveNumber(w, name) > 0
    THEN Ok(w.cdn.indices[ArchiveNumber(w, name)])
    ELSE Err("bad footer name")

encoding_parse(w, body) ==
    IF body.intact THEN Ok(w.cdn.encoding) ELSE Err("truncated encoding header")

root_parse(w, body) ==
    IF body.intact THEN Ok(w.cdn.root) ELSE Err("truncated root cas block")

(* Mutant: an earlier entry is kept over a later one with the same key. *)
merge_first_wins(indices) ==
    LET has(i, e) == Has(indices[i][1].map, e)
    IN  [map |->
            [e \in UNION {DOMAIN indices[i][1].map : i \in 1..Len(indices)} |->
                indices[CHOOSE i \in 1..Len(indices) :
                           has(i, e) /\ \A j \in 1..(i - 1) : ~has(j, e)][1].map[e]]]

(* try_join_all(..).await?.into_iter().flat_map(|Index { map }| map)
   .collect(): the entries of the indices in the order of the hashes, a
   later entry replacing an earlier one with the same key. *)
merge_indices(indices) ==
    LET has(i, e) == Has(indices[i][1].map, e)
    IN  [map |->
            [e \in UNION {DOMAIN indices[i][1].map : i \in 1..Len(indices)} |->
                indices[CHOOSE i \in 1..Len(indices) :
                           has(i, e) /\ \A j \in (i + 1)..Len(indices) : ~has(j, e)][1].map[e]]]

(* Mutant: try_join as a select, ready when one side is. *)
joined_either(archive_index, encoding_and_root) ==
    archive_index # None \/ encoding_and_root # None

(* futures::future::try_join(archive_index, encoding_and_root) is ready
   with Ok when both are. *)
joined(archive_index, encoding_and_root) ==
    archive_index # None /\ encoding_and_root # None

---------------------------------------------------------------------------
(* process: fetch_content, the seeds of the walker, and the references of
   a fetched file. *)

(* *offset + *size - 1 *)
range_end(offset, size, build) ==
    LET sum == usize_add(offset, size, build)
    IN  IF ~sum.ok THEN Overflowed ELSE usize_sub(sum.val, 1, build)

(* archive_index.map.get(&encoding.c2e(ckey)?).context("missing index
   key")?: the entry (archive, size, offset) of the content key. *)
resolve_content(p, ckey) ==
    LET e == c2e(p.encoding_and_root[1].encoding, ckey)
        index == p.archive_index[1]
    IN  IF e.kind # "ok" THEN e
        ELSE IF ~Has(index.map, e.val) THEN Err("missing index key")
        ELSE Ok([ckey |-> ckey, ekey |-> e.val, entry |-> index.map[e.val]])

(* fetch_content(ckey) up to its await: the request it is suspended in, or
   the error or panic it ends with. *)
fetch_content_call(p, prefixes, ckey, build) ==
    LET r == resolve_content(p, ckey)
    IN  IF r.kind # "ok" THEN r
        ELSE LET entry == r.val.entry
                 end == range_end(entry.offset, entry.size, build)
             IN  IF ~end.ok THEN Panic("attempt to subtract with overflow")
                 ELSE Ok(fetch_cdn_bytes(prefixes, "data", entry.archive, None,
                                         Some(<<entry.offset, end.val>>)))

(* blte::parse on the response of fetch_content.  The call of main.rs
   passes the response alone and blte::parse takes the expected checksum
   first; the encoding key is what the resolver has for it. *)
blte_parse_response(ekey, response, build) == parse(ekey, response, build)

(* Mutant: the decoded bytes are returned unchecked. *)
content_unchecked(ckey, bytes) == Ok(bytes)

(* ensure!(util::md5hash(&bytes) == ckey.0, "checksum fail on {}", ckey);
   Ok(bytes) *)
content_checked(ckey, bytes) ==
    IF md5hash(bytes) # ckey THEN Err("checksum fail on") ELSE Ok(bytes)

(* fetch_content from the response on. *)
fetch_content_return(c, response, build) ==
    LET bytes == blte_parse_response(c.ekey, response, build)
    IN  IF bytes.kind # "ok" THEN bytes ELSE content_checked(c.ckey, bytes.val)

(* fetch_fdid *)
fetch_fdid(root, fdid) == f2c(root, fdid)

(* The enumerations of a finite set: the orders a HashMap may iterate in. *)
Orders(S) ==
    {o \in [1..Cardinality(S) -> S] : \A i, j \in 1..Cardinality(S) : o[i] = o[j] => i = j}

(* The fdids table: (v.join("").to_lowercase(), FileDataID(k)) collected
   into a HashMap; of the rows with one name, any may be the one kept. *)
fdids_tables(strings) ==
    LET name(k) == to_lowercase(join(strings[k], <<>>))
        names == {name(k) : k \in DOMAIN strings}
    IN  {t \in [names -> DOMAIN strings] : \A n \in names : name(t[n]) = n}

FrameXML ==
    str(<<"I", "n", "t", "e", "r", "f", "a", "c", "e", "\\",
          "F", "r", "a", "m", "e", "X", "M", "L", "\\">>)
DotToc == str(<<".", "t", "o", "c">>)
DotXml == str(<<".", "x", "m", "l">>)

(* The closure of filter_map: the toc of a directory that the root names,
   none, or the panic of s[..s.len() - 1] on an empty string. *)
seed(root, s, suffix) ==
    IF s = <<>> THEN Panic("attempt to subtract with overflow")
    ELSE LET parts == split(SubSeq(s, 1, Len(s) - 1), Backslash)
             dirname == parts[Len(parts)]
             toc1 == s \o dirname \o str(<<"_">>) \o suffix \o DotToc
             toc2 == s \o dirname \o DotToc
         IN  Ok(IF n2c(root, toc1).kind = "ok" THEN Some(toc1)
                ELSE IF n2c(root, toc2).kind = "ok" THEN Some(toc2)
                ELSE None)

seeds(root, dirs, suffix) ==
    LET each == [i \in 1..Len(dirs) |-> seed(root, dirs[i], suffix)]
    IN  IF \E i \in 1..Len(dirs) : each[i].kind # "ok"
        THEN each[CHOOSE i \in 1..Len(dirs) : each[i].kind # "ok"]
        ELSE Ok(Concat([i \in 1..Len(dirs) |-> each[i].val]))

(* The directories to seed from: the strings of the rows in the order
   the table yields them, and "Interface\FrameXML\" after them. *)
dirs_in(strings, order) ==
    Concat([i \in 1..Len(order) |-> strings[order[i]]]) \o <<FrameXML>>

(* The body of the loop after the fetch: the paths it pushes. *)
references(file, content) ==
    IF ends_with(file, DotToc)
    THEN LET text == from_utf8(content)
         IN  IF text.kind # "ok" THEN text
             ELSE LET ls == lines(text.val)
                      trimmed == [i \in 1..Len(ls) |-> trim(ls[i])]
                      kept == Filter(trimmed,
                                     {i \in 1..Len(ls) :
                                         /\ trimmed[i] # <<>>
                                         /\ ~starts_with(trimmed[i], <<code("#")>>)})
                  IN  Ok([i \in 1..Len(kept) |-> normalize_path(file, kept[i])])
    ELSE IF ends_with(file, DotXml)
    THEN LET values == xml_files(unwrap_or(strip_prefix(content, BOM), content))
         IN  IF values.kind # "ok" THEN values
             ELSE Ok([i \in 1..Len(values.val) |-> normalize_path(file, values.val[i])])
    ELSE Ok(<<>>)

(* Mutant: the name lookup alone. *)
content_key_by_name(root, fdids, file) ==
    IF n2c(root, file).kind = "ok" THEN Some(n2c(root, file).val) ELSE None

(* root.n2c(&file).ok().or_else(|| fdids.get(&file.to_lowercase())
   .and_then(|k| root.f2c(k).ok())) *)
content_key(root, fdids, file) ==
    IF n2c(root, file).kind = "ok" THEN Some(n2c(root, file).val)
    ELSE IF ~Has(fdids, to_lowercase(file)) THEN None
    ELSE IF f2c(root, fdids[to_lowercase(file)]).kind = "ok"
         THEN Some(f2c(root, fdids[to_lowercase(file)]).val)
         ELSE None

(* Mutant: the loop is left with entries on the stack. *)
loop_left_early(stack) == TRUE

(* while let Some(file) = stack.pop(): over when the stack is empty *)
loop_done(stack) == stack = <<>>

(* to_zip_archive_bytes: the entries by name, '\' written '/'. *)
to_zip_archive(m) ==
    [n \in {replace(k, Backslash, Slash) : k \in DOMAIN m} |->
        m[CHOOSE k \in DOMAIN m : replace(k, Backslash, Slash) = n]]

(* n passes through CdnClient::fetch_bytes, up to the request. *)
RECURSIVE fetch_bytes_times(_, _)
fetch_bytes_times(permits, n) ==
    IF n = 0 THEN permits ELSE fetch_bytes_times(fetch_bytes_throttle(permits), n - 1)

---------------------------------------------------------------------------
(* process: the pass.  pc is "start", "patch" (the try_join of the two
   patch requests), "assemble" (the try_join of archive_index and
   encoding_and_root), "fdids" and "dirs" (the two tables), "walk",
   "zip", and "done", "failed" or "panicked" at the end. *)
Init ==
    /\ pc = "start"
    /\ world \in Worlds
    /\ cdn_prefixes = <<>>
    /\ throttle = Permits
    /\ fetches = [t \in Tasks |-> Idle]
    /\ call = [product |-> "Vanilla", ptr |-> FALSE]
    /\ ret = None
    /\ wire = <<>>
    /\ proc = NewProc
    /\ zips = None
    /\ failures = 0
    /\ cascdb = NoFiles

(* An error propagated by `?` to the caller of process, or a panic: the
   futures of the pass are dropped with it. *)
Fail(e, p) ==
    /\ pc' = IF e.kind = "panic" THEN "panicked" ELSE "failed"
    /\ ret' = Some(e)
    /\ fetches' = [t \in Tasks |-> Idle]
    /\ proc' = p

(* After a step of an assembling future: on to the tables once both
   futures are complete. *)
AfterJoin(p) == IF joined(p.archive_index, p.encoding_and_root) THEN "fdids" ELSE "assemble"

(* try_join(client.fetch_version(..), client.fetch_cdns(..)) is polled:
   both requests go out, on the plain client. *)
ProcessStart ==
    /\ pc = "start"
    /\ pc' = "patch"
    /\ proc' = [proc EXCEPT !.patch = {"versions", "cdns"}]
    /\ UNCHANGED <<cdn_prefixes, throttle, fetches, call, ret, wire, world, zips, failures, cascdb>>

(* A patch request completes: a transport error, a text without the "us"
   row, or the row.  With both rows the CdnClient is built and the two
   assembling futures are polled up to their first request. *)
PatchReply(q, reply) ==
    /\ pc = "patch"
    /\ q \in proc.patch
    /\ IF reply = "error"
       THEN /\ Fail(Err("error sending request"), [proc EXCEPT !.patch = {}])
            /\ UNCHANGED <<cdn_prefixes, throttle>>
       ELSE IF reply = "garbled"
       THEN /\ Fail(Err(IF q = "versions" THEN "missing us version" ELSE "missing us cdn"),
                    [proc EXCEPT !.patch = {}])
            /\ UNCHANGED <<cdn_prefixes, throttle>>
       ELSE LET p == [proc EXCEPT
                        !.patch = @ \ {q},
                        !.versions = IF q = "versions"
                                     THEN Some([build |-> BuildConfigHash, cdn |-> CdnConfigHash])
                                     ELSE @,
                        !.cdns = IF q = "cdns" THEN Some([i \in 1..world.hosts |-> i]) ELSE @]
            IN  IF p.patch # {}
                THEN /\ proc' = p
                     /\ UNCHANGED <<pc, ret, fetches, cdn_prefixes, throttle>>
                ELSE /\ proc' = p
                     /\ pc' = "assemble"
                     /\ cdn_prefixes' = p.cdns[1]
                     /\ throttle' = fetch_bytes_times(Permits, 2)
                     /\ fetches' =
                           [fetches EXCEPT
                              ![ArchiveIndex] =
                                 fetch_cdn_bytes(p.cdns[1], "config", p.versions[1].cdn, None, None),
                              ![EncodingAndRoot] =
                                 fetch_cdn_bytes(p.cdns[1], "config", p.versions[1].build, None, None)]
                     /\ UNCHANGED ret
    /\ UNCHANGED <<call, wire, world, zips, failures, cascdb>>

(* The request of task t fails: fetch_cdn_bytes goes on to its next
   request, or returns its error, which every caller propagates. *)
RequestFails(t) ==
    /\ pc \in {"assemble", "fdids", "dirs", "walk"}
    /\ Sends(fetches[t])
    /\ failures < Budget(world)
    /\ failures' = failures + 1
    /\ LET f == fetch_failed(cdn_prefixes, fetches[t])
       IN  IF Sends(f)
           THEN /\ throttle > 0
                /\ throttle' = fetch_bytes_throttle(throttle)
                /\ fetches' = [fetches EXCEPT ![t] = f]
                /\ UNCHANGED <<pc, ret, proc>>
           ELSE /\ Fail([kind |-> "err", val |-> f.error[1].path, msg |-> f.error[1].msg], proc)
                /\ UNCHANGED throttle
    /\ UNCHANGED <<cdn_prefixes, call, wire, world, zips, cascdb>>

(* archive_index: the CDN config arrives; one index request per archive
   goes out (try_join_all polls every future). *)
CdnConfigFetched(body) ==
    /\ pc = "assemble"
    /\ Sends(fetches[ArchiveIndex])
    /\ body \in Responses(world, fetches[ArchiveIndex])
    /\ LET hashes == parse_cdn_config(world, body)
       IN  IF hashes.kind # "ok"
           THEN Fail(hashes, proc) /\ UNCHANGED throttle
           ELSE /\ throttle > 0
                /\ throttle' = fetch_bytes_times(throttle, Len(hashes.val))
                /\ fetches' =
                      [t \in Tasks |->
                          IF t = ArchiveIndex THEN Idle
                          ELSE IF t[1] = "index" /\ t[2] <= Len(hashes.val)
                          THEN fetch_cdn_bytes(cdn_prefixes, "data", hashes.val[t[2]],
                                               Some(".index"), None)
                          ELSE fetches[t]]
                /\ proc' = [proc EXCEPT !.hashes = hashes.val,
                                        !.indices = [i \in 1..Len(hashes.val) |-> None]]
                /\ UNCHANGED <<pc, ret>>
    /\ UNCHANGED <<cdn_prefixes, call, wire, world, zips, failures, cascdb>>

(* archive_index: the index of archive i arrives; with the last of them
   the indices are merged. *)
IndexFetched(i, body) ==
    /\ pc = "assemble"
    /\ Sends(fetches[IndexOfArchive(i)])
    /\ body \in Responses(world, fetches[IndexOfArchive(i)])
    /\ \E index \in {parse_index(world, proc.hashes[i], body)} :
          IF index.kind # "ok"
          THEN Fail(index, proc)
          ELSE \E indices \in {[proc.indices EXCEPT ![i] = Some(index.val)]} :
                  \E p \in {[proc EXCEPT
                                !.indices = indices,
                                !.archive_index =
                                    IF \A j \in 1..Len(indices) : indices[j] # None
                                    THEN Some(merge_indices(indices)) ELSE None]} :
                     /\ proc' = p
                     /\ fetches' = [fetches EXCEPT ![IndexOfArchive(i)] = Idle]
                     /\ pc' = AfterJoin(p)
                     /\ UNCHANGED ret
    /\ UNCHANGED <<cdn_prefixes, throttle, call, wire, world, zips, failures, cascdb>>

(* encoding_and_root: the build config arrives; the encoding table is
   requested. *)
BuildConfigFetched(body) ==
    /\ pc = "assemble"
    /\ Sends(fetches[EncodingAndRoot])
    /\ proc.buildinfo = None
    /\ body \in Responses(world, fetches[EncodingAndRoot])
    /\ LET buildinfo == parse_build_config(world, body)
       IN  IF buildinfo.kind # "ok"
           THEN Fail(buildinfo, proc) /\ UNCHANGED throttle
           ELSE /\ throttle > 0
                /\ throttle' = fetch_bytes_throttle(throttle)
                /\ fetches' = [fetches EXCEPT ![EncodingAndRoot] =
                                  fetch_cdn_bytes(cdn_prefixes, "data", buildinfo.val.encoding,
                                                  None, None)]
                /\ proc' = [proc EXCEPT !.buildinfo = Some(buildinfo.val)]
                /\ UNCHANGED <<pc, ret>>
    /\ UNCHANGED <<cdn_prefixes, call, wire, world, zips, failures, cascdb>>

(* encoding_and_root: the encoding table arrives; the root is resolved
   through it and requested. *)
EncodingFetched(body) ==
    /\ pc = "assemble"
    /\ Sends(fetches[EncodingAndRoot])
    /\ proc.buildinfo # None
    /\ proc.encoding = None
    /\ body \in Responses(world, fetches[EncodingAndRoot])
    /\ LET encoding == encoding_parse(world, body)
           ekey == c2e(encoding.val, proc.buildinfo[1].root)
       IN  IF encoding.kind # "ok"
           THEN Fail(encoding, proc) /\ UNCHANGED throttle
           ELSE IF ekey.kind # "ok"
           THEN Fail(ekey, proc) /\ UNCHANGED throttle
           ELSE /\ throttle > 0
                /\ throttle' = fetch_bytes_throttle(throttle)
                /\ fetches' = [fetches EXCEPT ![EncodingAndRoot] =
                                  fetch_cdn_bytes(cdn_prefixes, "data", ekey.val, None, None)]
                /\ proc' = [proc EXCEPT !.encoding = Some(encoding.val)]
                /\ UNCHANGED <<pc, ret>>
    /\ UNCHANGED <<cdn_prefixes, call, wire, world, zips, failures, cascdb>>

(* encoding_and_root: the root arrives; the future is complete. *)
RootFetched(body) ==
    /\ pc = "assemble"
    /\ Sends(fetches[EncodingAndRoot])
    /\ proc.encoding # None
    /\ body \in Responses(world, fetches[EncodingAndRoot])
    /\ LET root == root_parse(world, body)
           p == [proc EXCEPT !.encoding_and_root =
                    Some([encoding |-> proc.encoding[1], root |-> root.val])]
       IN  IF root.kind # "ok"
           THEN Fail(root, proc)
           ELSE /\ proc' = p
                /\ fetches' = [fetches EXCEPT ![EncodingAndRoot] = Idle]
                /\ pc' = AfterJoin(p)
                /\ UNCHANGED ret
    /\ UNCHANGED <<cdn_prefixes, throttle, call, wire, world, zips, failures, cascdb>>

(* fetch_content(ckey) is called with the locals p: it ends at once with
   an error or a panic, or its ranged request goes out.  content is what
   the call has resolved: the keys and the entry of the index. *)
CallFetchContent(p, ckey) ==
    \E r \in {resolve_content(p, ckey)} :
       \E c \in {fetch_content_call(p, cdn_prefixes, ckey, world.build)} :
          LET called == [p EXCEPT !.calls = IF @ < MaxLoad THEN @ + 1 ELSE @,
                                  !.content = IF r.kind = "ok" THEN Some(r.val) ELSE None]
          IN  IF c.kind # "ok"
              THEN Fail(c, called) /\ UNCHANGED throttle
              ELSE /\ throttle > 0
                   /\ throttle' = fetch_bytes_throttle(throttle)
                   /\ fetches' = [fetches EXCEPT ![Main] = c.val]
                   /\ proc' = called
                   /\ UNCHANGED <<pc, ret>>

(* fetch_fdid(FileDataID(1375801)), then fetch_fdid(FileDataID(1267335)) *)
CallFetchFdid ==
    /\ pc \in {"fdids", "dirs"}
    /\ fetches[Main] = Idle
    /\ \E ckey \in {fetch_fdid(proc.encoding_and_root[1].root,
                                 IF pc = "fdids" THEN FdidsFile ELSE DirsFile)} :
          IF ckey.kind # "ok"
          THEN Fail(ckey, proc) /\ UNCHANGED throttle
          ELSE CallFetchContent(proc, ckey.val)
    /\ UNCHANGED <<cdn_prefixes, call, wire, world, zips, failures, cascdb>>

(* The locals once fetch_content has its response, and what it returns. *)
Returned(body) ==
    [proc EXCEPT
       !.content = None,
       !.returned = Some([ckey |-> proc.content[1].ckey, ekey |-> proc.content[1].ekey,
                          response |-> body.bytes,
                          result |-> fetch_content_return(proc.content[1], body.bytes,
                                                          world.build)])]

(* The table of file ids arrives. *)
FdidsFetched(body) ==
    /\ pc = "fdids"
    /\ Sends(fetches[Main])
    /\ body \in Responses(world, fetches[Main])
    /\ \E p \in {Returned(body)} :
          LET bytes == p.returned[1].result
          IN  IF bytes.kind # "ok" THEN Fail(bytes, p)
              ELSE \E strings \in {wdc3_strings(bytes.val)} :
                      IF strings.kind # "ok" THEN Fail(strings, p)
                      ELSE /\ \E fdids \in fdids_tables(strings.val) :
                                 proc' = [p EXCEPT !.fdids = Some(fdids)]
                           /\ pc' = "dirs"
                           /\ fetches' = [fetches EXCEPT ![Main] = Idle]
                           /\ UNCHANGED ret
    /\ UNCHANGED <<cdn_prefixes, throttle, call, wire, world, zips, failures, cascdb>>

(* The table of directories arrives: the stack is seeded. *)
DirsFetched(body) ==
    /\ pc = "dirs"
    /\ Sends(fetches[Main])
    /\ body \in Responses(world, fetches[Main])
    /\ \E p \in {Returned(body)} :
          LET bytes == p.returned[1].result
          IN  IF bytes.kind # "ok" THEN Fail(bytes, p)
              ELSE \E strings \in {wdc3_strings(bytes.val)} :
                      IF strings.kind # "ok" THEN Fail(strings, p)
                      ELSE \E order \in Orders(DOMAIN strings.val) :
                              \E stack \in {seeds(proc.encoding_and_root[1].root,
                                                  dirs_in(strings.val, order),
                                                  product_suffix(call.product))} :
                                 IF stack.kind # "ok" THEN Fail(stack, p)
                                 ELSE /\ proc' = [p EXCEPT !.stack = stack.val]
                                      /\ pc' = "walk"
                                      /\ fetches' = [fetches EXCEPT ![Main] = Idle]
                                      /\ UNCHANGED ret
    /\ UNCHANGED <<cdn_prefixes, throttle, call, wire, world, zips, failures, cascdb>>

(* The top of the loop: the stack is empty and the loop is over; or the
   popped file has no content key and is skipped; or fetch_content is
   called for it. *)
WalkPop ==
    /\ pc = "walk"
    /\ fetches[Main] = Idle
    /\ IF loop_done(proc.stack)
       THEN /\ pc' = "zip"
            /\ UNCHANGED <<ret, fetches, proc, throttle>>
       ELSE \E file \in {proc.stack[Len(proc.stack)]} :
               \E ckey \in {content_key(proc.encoding_and_root[1].root, proc.fdids[1], file)} :
                  IF ckey = None
                  THEN /\ proc' = [proc EXCEPT !.stack = pop(@), !.skipped = @ \cup {file}]
                       /\ UNCHANGED <<pc, ret, fetches, throttle>>
                  ELSE CallFetchContent([proc EXCEPT !.stack = pop(@), !.file = Some(file)],
                                        ckey[1])
    /\ UNCHANGED <<cdn_prefixes, call, wire, world, zips, failures, cascdb>>

(* The content of the popped file arrives: its references are pushed and
   it is inserted into the result. *)
FileFetched(body) ==
    /\ pc = "walk"
    /\ Sends(fetches[Main])
    /\ body \in Responses(world, fetches[Main])
    /\ \E p \in {Returned(body)} :
          LET content == p.returned[1].result
          IN  IF content.kind # "ok" THEN Fail(content, p)
              ELSE \E pushed \in {references(proc.file[1], content.val)} :
                      IF pushed.kind # "ok" THEN Fail(pushed, p)
                      ELSE /\ proc' = [p EXCEPT !.stack = @ \o pushed.val,
                                                !.result = (proc.file[1] :> content.val) @@ @,
                                                !.file = None]
                           /\ fetches' = [fetches EXCEPT ![Main] = Idle]
                           /\ UNCHANGED <<pc, ret>>
    /\ UNCHANGED <<cdn_prefixes, throttle, call, wire, world, zips, failures, cascdb>>

(* tokio::fs::write(format!("zips/{}.zip", patch_suffix), ..): the file
   is written; or it cannot be created; or it is created and the write
   fails. *)
WriteZip(outcome) ==
    /\ pc = "zip"
    /\ \E file \in {[path |-> product_slug(call.product, call.ptr),
                       entries |-> to_zip_archive(proc.result), complete |-> TRUE]} :
           IF outcome = "written"
           THEN /\ zips' = Some(file)
                /\ pc' = "done"
                /\ ret' = Some(Ok(<<>>))
                /\ UNCHANGED <<fetches, proc>>
           ELSE /\ zips' = IF outcome = "created" THEN Some([file EXCEPT !.complete = FALSE])
                           ELSE zips
                /\ Fail(Err("zip writing"), proc)
    /\ UNCHANGED <<cdn_prefixes, throttle, call, wire, world, failures, cascdb>>

Next ==
    \/ ProcessStart
    \/ \E q \in {"versions", "cdns"}, reply \in {"ok", "garbled", "error"} : PatchReply(q, reply)
    \/ \E t \in Tasks : RequestFails(t)
    \/ \E body \in Responses(world, fetches[ArchiveIndex]) : CdnConfigFetched(body)
    \/ \E i \in 1..MaxArchives :
          \E body \in Responses(world, fetches[IndexOfArchive(i)]) : IndexFetched(i, body)
    \/ \E body \in Responses(world, fetches[EncodingAndRoot]) : BuildConfigFetched(body)
    \/ \E body \in Responses(world, fetches[EncodingAndRoot]) : EncodingFetched(body)
    \/ \E body \in Responses(world, fetches[EncodingAndRoot]) : RootFetched(body)
    \/ CallFetchFdid
    \/ \E body \in Responses(world, fetches[Main]) : FdidsFetched(body)
    \/ \E body \in Responses(world, fetches[Main]) : DirsFetched(body)
    \/ \E body \in Responses(world, fetches[Main]) : FileFetched(body)
    \/ WalkPop
    \/ \E outcome \in {"written", "uncreated", "created"} : WriteZip(outcome)

Spec == Init /\ [][Next]_vars

(* The pass against the consistent CDN and against the one whose XML file
   includes itself, under a runtime that polls the loop of the walker
   whenever it can go on and a network on which the request of the loop
   completes. *)
InitLive ==
    /\ Init
    /\ world.dev \in {"none", "cyclic"}
    /\ world.hosts = 1
    /\ world.archives = 2

(* The request of the loop completes: fetch_content returns to the loop,
   with the content or with an error. *)
LoopRequestCompletes ==
    /\ pc = "walk"
    /\ Sends(fetches[Main])
    /\ fetches' = [fetches EXCEPT ![Main] = Idle]

SpecLive ==
    /\ InitLive
    /\ [][Next]_vars
    /\ WF_vars(WalkPop)
    /\ WF_fetches(LoopRequestCompletes)

---------------------------------------------------------------------------
(* C1: at most 5 requests issued through CdnClient::fetch_bytes are in
   flight at once, whatever the number of futures that call it. *)
InFlight == {t \in Tasks : Sends(fetches[t])}

C1_AtMostFiveInFlight == Cardinality(InFlight) <= Permits

(* C2: the requests of one fetch_cdn_bytes call go out one at a time, the
   i-th of them to host ((i-1) mod n)+1 of the n configured prefixes, in
   at most 9 rounds of n; every request before the latest one has failed
   (so none follows a success), and a call that returns Ok returns the
   body of the request that succeeded. *)
C2_RequestOrder ==
    LET n == Len(cdn_prefixes)
    IN  /\ Len(wire) <= 9 * n
        /\ \A i \in 1..Len(wire) :
              /\ wire[i].url.prefix = cdn_prefixes[((i - 1) % n) + 1]
              /\ wire[i].url.path = cdn_path(call.tag, call.hash, call.suffix)
              /\ wire[i].range = call.range
              /\ i < Len(wire) => wire[i].outcome = "err"
        /\ Cardinality({i \in 1..Len(wire) : wire[i].outcome = "pending"}) <= 1
        /\ (ret # None /\ ret[1].st = "ok") =>
              /\ wire # <<>>
              /\ wire[Len(wire)].outcome = "ok"
              /\ ret[1].data = wire[Len(wire)].body

(* C2 witness: a call over two hosts returned the bytes of a request of
   the second round, after both hosts failed in the first. *)
C2_Witness ==
    /\ pc = "fetch_returned"
    /\ Len(cdn_prefixes) = 2
    /\ ret[1].st = "ok"
    /\ Len(wire) = 4
    /\ wire[4].url.prefix = cdn_prefixes[2]

(* C3: fetch_cdn_bytes returns an error only after exactly 9 * n failed
   requests, none when there is no host, so no failure is terminal while a
   host or round is left; the error names tag/H[0..2]/H[2..4]/H+suffix,
   H the 32 hex digits of the hash. *)
C3_TerminalError ==
    (ret # None /\ ret[1].st = "err") =>
        LET n == Len(cdn_prefixes)
            p == ret[1].error[1].path
        IN  /\ Len(wire) = 9 * n
            /\ \A i \in 1..Len(wire) : wire[i].outcome = "err"
            /\ ret[1].error[1].msg = "fetch failed on all hosts"
            /\ p.tag = call.tag
            /\ Len(p.file) = 32
            /\ \A j \in 1..16 :
                  /\ p.file[2 * j - 1] \in 0..15
                  /\ p.file[2 * j] \in 0..15
                  /\ 16 * p.file[2 * j - 1] + p.file[2 * j] = call.hash[j]
            /\ p.dir1 = <<p.file[1], p.file[2]>>
            /\ p.dir2 = <<p.file[3], p.file[4]>>
            /\ p.suffix = (IF call.suffix = None THEN "" ELSE call.suffix[1])

(* C3 witness: two hosts, eighteen failures, the terminal error. *)
C3_Witness ==
    /\ pc = "fetch_returned"
    /\ ret[1].st = "err"
    /\ Len(cdn_prefixes) = 2
    /\ Len(wire) = 18
    /\ call.hash = U128(171, 205)
    /\ call.suffix = Some(".index")

(* C4: the bytes that fetch_content(K) returns hash to K; a decoded
   payload that hashes to something else is the error "checksum fail on",
   and every file of the walker's result hashes to its content key. *)
C4_ContentHashChecked ==
    /\ proc.returned # None =>
          LET r == proc.returned[1]
              decoded == blte_parse_response(r.ekey, r.response, world.build)
          IN  /\ r.result.kind = "ok" => md5hash(r.result.val) = r.ckey
              /\ (decoded.kind = "ok" /\ md5hash(decoded.val) # r.ckey)
                    => r.result = Err("checksum fail on")
    /\ \A file \in DOMAIN proc.result :
          Some(md5hash(proc.result[file]))
             = content_key(proc.encoding_and_root[1].root, proc.fdids[1], file)

(* C4 witness: in the walk, a response decoded to bytes that do not hash
   to the content key asked for, and fetch_content returned the error. *)
C4_Witness ==
    /\ pc = "failed"
    /\ proc.file # None
    /\ proc.returned # None
    /\ blte_parse_response(proc.returned[1].ekey, proc.returned[1].response,
                           world.build).kind = "ok"
    /\ proc.returned[1].result = Err("checksum fail on")

(* C5: fetch_content(K) decodes its response with E = c2e(K) as the
   expected container checksum: a response whose container hash (of the
   header, or of the whole blob when header_size is 0) is not E is
   rejected by the decoder, before the content check. *)
C5_ContainerHashIsEncodingKey ==
    proc.returned # None =>
        LET r == proc.returned[1]
        IN  /\ c2e(proc.encoding_and_root[1].encoding, r.ckey) = Ok(r.ekey)
            /\ blte_checksum(r.response, "none") # r.ekey =>
                  /\ r.result.kind # "ok"
                  /\ r.result # Err("checksum fail on")

(* C5 witness: the response is a well-formed blob, which decodes under its
   own container hash, and that hash is not the encoding key: rejected. *)
C5_Witness ==
    /\ proc.returned # None
    /\ blte_checksum(proc.returned[1].response, "none") # proc.returned[1].ekey
    /\ parse(blte_checksum(proc.returned[1].response, "none"),
             proc.returned[1].response, world.build).kind = "ok"
    /\ proc.returned[1].result = Err("Condition failed")

(* C6: for the entry (archive, size, offset) that a fetch_content call has
   resolved, the call does not panic, and its request is for that archive
   with the range (offset, offset + size - 1), of size bytes. *)
C6_RangeOfEntry ==
    proc.content # None =>
        LET entry == proc.content[1].entry
        IN  /\ pc # "panicked"
            /\ Sends(fetches[Main]) =>
                  /\ fetches[Main].tag = "data"
                  /\ fetches[Main].hash = entry.archive
                  /\ fetches[Main].range = Some(<<entry.offset, entry.offset + entry.size - 1>>)
                  /\ fetches[Main].range[1][2] - fetches[Main].range[1][1] + 1 = entry.size

(* C7: archive_index and encoding_and_root are driven together (while the
   two are joined, each that is not complete has a request in flight),
   fetch_content is called and a ranged request is out only when both are
   complete, and the pass is past the join only then. *)
C7_BothBeforeContent ==
    LET both == proc.archive_index # None /\ proc.encoding_and_root # None
    IN  /\ pc \in {"fdids", "dirs", "walk", "zip", "done"} => both
        /\ (proc.calls > 0 \/ fetches[Main] # Idle) => both
        /\ pc = "assemble" =>
              /\ proc.archive_index = None =>
                    \E t \in InFlight : t[1] \in {"archive_index", "index"}
              /\ proc.encoding_and_root = None => EncodingAndRoot \in InFlight

(* C7 witness: requests failed while the two were assembled, both are
   complete, and the request of the first fetch_content call is out. *)
C7_Witness ==
    /\ pc = "fdids"
    /\ failures > 0
    /\ proc.archive_index # None
    /\ proc.encoding_and_root # None
    /\ proc.calls = 1
    /\ Sends(fetches[Main])

(* C8: a pass that failed before the zip is written returns its error and
   leaves no zip; a zip is there only after the loop has emptied the
   stack, with no request out, and it holds the walker's result. *)
C8_NoZipOnError ==
    /\ pc \in {"failed", "panicked"} =>
          /\ ret # None
          /\ ret[1].kind \in {"err", "panic"}
          /\ ret[1] # Err("zip writing") => zips = None
    /\ pc \notin {"done", "failed"} => zips = None
    /\ zips # None =>
          /\ proc.stack = <<>>
          /\ proc.file = None
          /\ InFlight = {}
          /\ zips[1].path = product_slug(call.product, call.ptr)
          /\ zips[1].entries = to_zip_archive(proc.result)

(* C8 witness: the walker had fetched files when a later fetch_content
   failed; the pass returned the error and there is no zip. *)
C8_Witness ==
    /\ pc = "failed"
    /\ DOMAIN proc.result # {}
    /\ proc.file # None
    /\ ret[1].kind = "err"
    /\ zips = None

(* C9: in the walker, an entry of the worklist with no locator (a miss of
   the name hash, of the file id, of the encoding table or of the archive
   index) is skipped; the pass does not end with that miss as its error. *)
C9_MissesAreSkipped ==
    ~ ( /\ pc = "failed"
        /\ proc.file # None
        /\ ret[1] \in {Err("no encoding key for content key"),
                        Err("missing encoding key for content key"),
                        Err("missing index key")} )

---------------------------------------------------------------------------
(* What a framed blob declares, read off its bytes: the header size, the
   chunk count, and the end of the last declared chunk. *)
DeclaredHeaderSize(data) == be(Slice(data, 4, 8))
DeclaredCount(data) == be(Slice(data, 9, 12))
DeclaredFrame(data) ==
    /\ Len(data) >= 12
    /\ DeclaredHeaderSize(data) = 12 + 24 * DeclaredCount(data)
    /\ Len(data) >= DeclaredHeaderSize(data)
DeclaredEnd(data) ==
    DeclaredHeaderSize(data)
    + SumSeq([k \in 1..DeclaredCount(data) |->
                be(Slice(data, 12 + 24 * (k - 1), 16 + 24 * (k - 1)))])

(* C10: a framed blob parses only if it ends exactly where its last
   declared chunk ends; when every declared chunk decodes and bytes are
   left after the last one, the result is the error "trailing blte data"
   and no output. *)
C10_TrailingData ==
    (pc = "blte_returned" /\ DeclaredFrame(call.data)) =>
        LET end == DeclaredEnd(call.data)
        IN  /\ ret[1].kind = "ok" => Len(call.data) = end
            /\ ( /\ Len(call.data) > end
                 /\ parse(call.checksum, Slice(call.data, 0, end), call.build).kind = "ok" )
               => ret[1] = Err("trailing blte data")

(* C10 witness: two well-formed chunks followed by one more byte. *)
C10_Witness ==
    /\ pc = "blte_returned"
    /\ call.input.framed
    /\ call.input.fault = "trailing"
    /\ Len(call.input.chunks) = 2
    /\ call.input.chunks[1].tag = TagN
    /\ call.input.chunks[2].tag = TagZ
    /\ ret[1] = Err("trailing blte data")

(* The descriptors a framed blob declares, and the bytes of its k-th
   declared chunk. *)
DeclaredInfos(data) ==
    chunkinfo(Slice(data, 12, DeclaredHeaderSize(data)), DeclaredCount(data))
DeclaredChunk(data, k) ==
    LET infos == DeclaredInfos(data)
        start == DeclaredHeaderSize(data)
                 + SumSeq([j \in 1..(k - 1) |-> infos[j].compressed_size])
    IN  Slice(data, start, start + infos[k].compressed_size)

(* C11: when parse succeeds on a framed blob, every declared chunk decodes
   to as many bytes as its descriptor declares, 'N' or 'Z', the output is
   the decoded chunks in declared order, and its length is the sum of the
   declared uncompressed sizes. *)
C11_OutputIsTheChunks ==
    (pc = "blte_returned" /\ ret[1].kind = "ok" /\ DeclaredHeaderSize(call.data) # 0) =>
        LET infos == DeclaredInfos(call.data)
            decoded == [k \in 1..Len(infos) |-> parse_blte_chunk(DeclaredChunk(call.data, k))]
        IN  /\ \A k \in 1..Len(infos) :
                  /\ decoded[k].kind = "ok"
                  /\ Len(decoded[k].val) = infos[k].uncompressed_size
            /\ ret[1].val = Concat([k \in 1..Len(infos) |-> decoded[k].val])
            /\ Len(ret[1].val) = SumSeq([k \in 1..Len(infos) |-> infos[k].uncompressed_size])

(* C11 witness: a blob of an 'N' chunk of two bytes and a 'Z' chunk of one
   parsed to the three bytes. *)
C11_Witness ==
    /\ pc = "blte_returned"
    /\ call.input.framed
    /\ Len(call.input.chunks) = 2
    /\ call.input.chunks[1] = [tag |-> TagN, payload |-> <<104, 105>>]
    /\ call.input.chunks[2] = [tag |-> TagZ, payload |-> <<104>>]
    /\ ret[1] = Ok(<<104, 105, 104>>)

(* C12: for every payload P, the empty one and those of 1 or 2 bytes
   included, parse(content_hash(X), X) of X = "BLTE" 00 00 00 00 'N' P
   returns P. *)
C12_UnframedRoundTrip ==
    ( /\ pc = "blte_returned"
      /\ ~call.input.framed
      /\ call.input.fault = "none"
      /\ call.input.chunks[1].tag = TagN )
    => /\ call.data = MagicBLTE \o <<0, 0, 0, 0, TagN>> \o call.input.chunks[1].payload
       /\ call.checksum = md5hash(call.data)
       /\ ret[1] = Ok(call.input.chunks[1].payload)


---------------------------------------------------------------------------
(* What an index holds, read off its bytes: the last key the table of
   contents records for block k, the slot of the first entry of block k
   with that key (the end of the block when there is none), and the
   entries of all blocks up to those slots. *)
LastKeyInBlock(data, k) == Slice(data.toc, 16 * (k - 1), 16 * k)

HasLastKey(data, k) ==
    \E i \in 1..Len(data.blocks[k]) : data.blocks[k][i].ekey = LastKeyInBlock(data, k)

UpToLastKey(data, k) ==
    IF HasLastKey(data, k)
    THEN CHOOSE i \in 1..Len(data.blocks[k]) :
            /\ data.blocks[k][i].ekey = LastKeyInBlock(data, k)
            /\ \A h \in 1..(i - 1) : data.blocks[k][h].ekey # LastKeyInBlock(data, k)
    ELSE Len(data.blocks[k])

EntriesUpToLastKeys(data, n) ==
    Concat([k \in 1..n |-> SubSeq(data.blocks[k], 1, UpToLastKey(data, k))])

NoKeyTwice(entries) ==
    \A i, j \in 1..Len(entries) : entries[i].ekey = entries[j].ekey => i = j

(* C13: when parse_index succeeds, no key occurs twice among the entries
   read (those of every block up to its last key) and the map holds each
   of them once, with its archive, size and offset; an index that passes
   the checks before the entries, whose blocks all hold their last key
   and in which a key occurs twice among the entries read, gives the
   error "duplicate key in index". *)
C13_DuplicateKeyIsFatal ==
    pc = "index_returned" =>
        LET n == Len(call.data.blocks)
        IN  /\ ret[1].kind = "ok" =>
                 \E read \in {EntriesUpToLastKeys(call.data, n)} :
                    /\ NoKeyTwice(read)
                    /\ DOMAIN ret[1].val.map = {read[i].ekey : i \in 1..Len(read)}
                    /\ \A i \in 1..Len(read) :
                          ret[1].val.map[read[i].ekey]
                            = [archive |-> call.name, size |-> read[i].size,
                               offset |-> read[i].offset]
            /\ ( /\ call.input.fault = "none"
                 /\ \A k \in 1..n : HasLastKey(call.data, k)
                 /\ ~NoKeyTwice(EntriesUpToLastKeys(call.data, n)) )
               => ret[1] = Err("duplicate key in index")

C13_Witness ==
    /\ pc = "index_returned"
    /\ call.input.blocks = << [keys |-> <<1>>, last |-> 1, fill |-> "zero"],
                              [keys |-> <<1, 2>>, last |-> 2, fill |-> "zero"] >>
    /\ call.input.fault = "none"
    /\ ret[1] = Err("duplicate key in index")

(* The first block of an index that does not hold its last key, the
   blocks before it being read without a duplicate; 0 when there is none. *)
FirstBlockWithoutLastKey(data) ==
    LET ks == {k \in 1..Len(data.blocks) :
                 /\ ~HasLastKey(data, k)
                 /\ \A h \in 1..(k - 1) : HasLastKey(data, h)
                 /\ NoKeyTwice(EntriesUpToLastKeys(data, k - 1))}
    IN  IF ks = {} THEN 0 ELSE CHOOSE k \in ks : TRUE

(* C14: when parse_index succeeds, every block holds its last key and the
   map holds exactly the keys of the entries up to the first entry of
   that key, so that a key found only after it is not in the map; when
   parse_index reaches a block that does not hold its last key, it fails,
   with "last ekey mismatch" when no key of the block's 170 slots was
   inserted before and with "duplicate key in index" otherwise. *)
C14_ReadUpToLastKey ==
    pc = "index_returned" =>
        LET n == Len(call.data.blocks)
            k == FirstBlockWithoutLastKey(call.data)
        IN  /\ ret[1].kind = "ok" =>
                 /\ \A b \in 1..n : HasLastKey(call.data, b)
                 /\ \E read \in {EntriesUpToLastKeys(call.data, n)} :
                       DOMAIN ret[1].val.map = {read[i].ekey : i \in 1..Len(read)}
            /\ (call.input.fault = "none" /\ k # 0) =>
                 ret[1] = IF NoKeyTwice(EntriesUpToLastKeys(call.data, k))
                          THEN Err("last ekey mismatch")
                          ELSE Err("duplicate key in index")

C14_Witness ==
    /\ pc = "index_returned"
    /\ call.input.blocks = << [keys |-> <<1, 2>>, last |-> 1, fill |-> "zero"] >>
    /\ ret[1].kind = "ok"
    /\ DOMAIN ret[1].val.map = {U128(0, 1)}

(* C14 as stated: a block that parse_index reaches and that does not hold
   its last key always gives "last ekey mismatch". *)
C14_AlwaysLastEkeyMismatch ==
    ( /\ pc = "index_returned"
      /\ call.input.fault = "none"
      /\ FirstBlockWithoutLastKey(call.data) # 0 )
    => ret[1] = Err("last ekey mismatch")

(* num_elements of the footer: get_u32_le of its bytes 16..20. *)
FooterNumElements(data) == le(Slice(data.footer, 16, 20))

(* C15: when parse_index succeeds, the map has as many entries as the
   footer's num_elements says, 0 for an index without blocks; an index
   that is read to its end without another error and holds another
   number of entries gives "num_elements wrong in index". *)
C15_CountIsNumElements ==
    pc = "index_returned" =>
        LET n == Len(call.data.blocks)
        IN  /\ ret[1].kind = "ok" =>
                 /\ Cardinality(DOMAIN ret[1].val.map) = FooterNumElements(call.data)
                 /\ n = 0 => FooterNumElements(call.data) = 0
            /\ ( /\ call.input.fault = "none"
                 /\ \A k \in 1..n : HasLastKey(call.data, k)
                 /\ NoKeyTwice(EntriesUpToLastKeys(call.data, n))
                 /\ Len(EntriesUpToLastKeys(call.data, n)) # FooterNumElements(call.data) )
               => ret[1] = Err("num_elements wrong in index")

C15_Witness ==
    /\ pc = "index_returned"
    /\ call.input.blocks = << [keys |-> <<1>>, last |-> 1, fill |-> "zero"],
                              [keys |-> <<3, 4>>, last |-> 4, fill |-> "zero"] >>
    /\ FooterNumElements(call.data) = 3
    /\ ret[1].kind = "ok"
    /\ Cardinality(DOMAIN ret[1].val.map) = 3


---------------------------------------------------------------------------
(* What an encoding table holds, read off its bytes: the numbers of
   pages, and page k of either kind with the first key its directory
   records. *)
ContentPageCount(data) == be(Slice(data, 9, 13))
EncodingPageCount(data) == be(Slice(data, 13, 17))
ContentDirectory(data) == 22 + be(Slice(data, 18, 22))
ContentPagesAt(data) == ContentDirectory(data) + 32 * ContentPageCount(data)
EncodingDirectory(data) ==
    ContentPagesAt(data) + be(Slice(data, 5, 7)) * PageUnit * ContentPageCount(data)
EncodingPagesAt(data) == EncodingDirectory(data) + 32 * EncodingPageCount(data)

ContentPage(data, k) ==
    [first_key |-> Slice(data, ContentDirectory(data) + 32 * (k - 1),
                         ContentDirectory(data) + 32 * (k - 1) + 16),
     page |-> Slice(data, ContentPagesAt(data) + be(Slice(data, 5, 7)) * PageUnit * (k - 1),
                    ContentPagesAt(data) + be(Slice(data, 5, 7)) * PageUnit * k)]

EncodingPage(data, k) ==
    [first_key |-> Slice(data, EncodingDirectory(data) + 32 * (k - 1),
                         EncodingDirectory(data) + 32 * (k - 1) + 16),
     page |-> Slice(data, EncodingPagesAt(data) + be(Slice(data, 7, 9)) * PageUnit * (k - 1),
                    EncodingPagesAt(data) + be(Slice(data, 7, 9)) * PageUnit * k)]

(* C16: a table without fault whose content pages are filled with zero
   bytes after their entries, each page's first key being that of its
   first entry, parses to the map of exactly the entries listed: the
   zero bytes give no entry, and an entry of 48 keys is an entry. *)
C16_ZeroKeyCountEndsThePage ==
    ( /\ pc = "encoding_returned"
      /\ call.input.fault = "none"
      /\ call.input.epages = <<>>
      /\ \A k \in 1..Len(call.input.cpages) :
            /\ call.input.cpages[k].fill = 0
            /\ call.input.cpages[k].entries # <<>>
            /\ call.input.cpages[k].first = call.input.cpages[k].entries[1].ckey )
    => /\ ret[1].kind = "ok"
       /\ DOMAIN ret[1].val.cmap
            = {U128(0, call.input.cpages[k].entries[i].ckey) :
                 k \in 1..Len(call.input.cpages), i \in {1}}
       /\ \A k \in 1..Len(call.input.cpages) :
             Len(ret[1].val.cmap[U128(0, call.input.cpages[k].entries[1].ckey)].ekeys)
               = call.input.cpages[k].entries[1].key_count

(* C17: c2e gives the first encoding key listed for every content key of
   the table parse returned, and an error only for a key the table does
   not hold. *)
C17_EveryKeyHasAnEncodingKey ==
    pc = "c2e_returned" =>
        IF Has(call.encoding.cmap, call.c)
        THEN /\ call.encoding.cmap[call.c].ekeys # <<>>
             /\ ret[1] = Ok(call.encoding.cmap[call.c].ekeys[1])
        ELSE ret[1].kind = "err"

(* Whether the loop over a page of entries of at least size bytes reads
   an entry, and whether the first entry it reads has the key that the
   directory records. *)
ReadsAnEntry(p, size) == Len(p.page) >= size /\ p.page[1] # AsciiZero
ContentFirstKeyMatches(p) ==
    ReadsAnEntry(p, ContentEntryBytes) => Slice(p.page, 6, ContentEntryBytes) = p.first_key
EncodingFirstKeyMatches(p) ==
    ReadsAnEntry(p, EncodingEntryBytes) => Slice(p.page, 0, 16) = p.first_key

(* C18: when parse succeeds, on every content page and every encoding
   page from which an entry is read the first entry read has the key the
   directory records for the page; a table without fault in which some
   page's first entry has another key gives the error "first key mismatch
   in content". *)
C18_FirstKeyOfEveryPage ==
    pc = "encoding_returned" =>
        /\ ret[1].kind = "ok" =>
              /\ \A k \in 1..ContentPageCount(call.data) :
                    ContentFirstKeyMatches(ContentPage(call.data, k))
              /\ \A k \in 1..EncodingPageCount(call.data) :
                    EncodingFirstKeyMatches(EncodingPage(call.data, k))
        /\ ( /\ call.input.fault = "none"
             /\ \/ \E k \in 1..ContentPageCount(call.data) :
                      ~ContentFirstKeyMatches(ContentPage(call.data, k))
                \/ \E k \in 1..EncodingPageCount(call.data) :
                      ~EncodingFirstKeyMatches(EncodingPage(call.data, k)) )
           => ret[1] = Err("first key mismatch in content")

C18_Witness ==
    /\ pc = "encoding_returned"
    /\ Len(call.input.cpages) = 2
    /\ call.input.cpages[1].first = 1 /\ call.input.cpages[1].fill = AsciiZero
    /\ call.input.cpages[2].first = 2
    /\ Len(call.input.epages) = 1 /\ call.input.epages[1].first = 11
    /\ call.input.epages[1].fill = AsciiZero
    /\ ret[1].kind = "ok"
    /\ DOMAIN ret[1].val.cmap = {U128(0, 1), U128(0, 2), U128(0, 3)}
    /\ DOMAIN ret[1].val.emap = {U128(0, 11)}


---------------------------------------------------------------------------
(* What a root input describes: whether the name hashes of block b are
   left out, the number of records before block b, and whether the
   deltas of every block give file-ids that an i32 holds and that are not
   negative (those of the inputs: one delta 0, or the deltas 5 and 0). *)
SkippedBlock(input, b) == input.format = "tsfm_differ" /\ input.blocks[b].flagged
RecordsBefore(input, b) == SumSeq([h \in 1..(b - 1) |-> Len(input.blocks[h].deltas)])
PlainDeltas(input) ==
    \A b \in 1..Len(input.blocks) :
        input.blocks[b].deltas \in {<<(<<0, 0, 0, 0>>)>>, <<(<<5, 0, 0, 0>>), (<<0, 0, 0, 0>>)>>}

(* C19: root::parse reads a table that leaves out the name hashes of
   exactly the flagged blocks of a "TSFM" table whose two counts differ:
   the records of those blocks have no name hash, every other record has
   its own; f2c resolves the file-id of every record, and n2c resolves
   the name of a record if and only if its block is not such a block. *)
C19_NameHashesSkipped ==
    ( /\ pc = "root_returned"
      /\ call.input.fault = "none"
      /\ PlainDeltas(call.input)
      /\ call.input.format = "legacy" => call.input.blocks # <<>> )
    => /\ ret[1].kind = "ok"
       /\ Len(ret[1].val.data) = RecordsBefore(call.input, Len(call.input.blocks) + 1)
       /\ \A b \in 1..Len(call.input.blocks) :
             \A i \in 1..Len(call.input.blocks[b].deltas) :
                \E r \in {ret[1].val.data[RecordsBefore(call.input, b) + i]} :
                   /\ r.content_key = U128(b, i)
                   /\ r.name_hash = IF SkippedBlock(call.input, b) THEN None
                                    ELSE Some(name_hash(RecordName(b, i)))
                   /\ f2c(ret[1].val, r.fdid).kind = "ok"
                   /\ n2c(ret[1].val, RecordName(b, i))
                        = IF SkippedBlock(call.input, b) THEN Err("missing name hash in root")
                          ELSE Ok(U128(b, i))

C19_Witness ==
    /\ pc = "root_returned"
    /\ call.input.format = "tsfm_differ"
    /\ call.input.blocks = << [flagged |-> TRUE,
                               deltas |-> <<(<<5, 0, 0, 0>>), (<<0, 0, 0, 0>>)>>],
                              [flagged |-> FALSE, deltas |-> <<(<<0, 0, 0, 0>>)>>] >>
    /\ ret[1].kind = "ok"
    /\ ret[1].val.data[1].name_hash = None
    /\ ret[1].val.data[2].name_hash = None
    /\ ret[1].val.data[3].name_hash = Some(name_hash(RecordName(2, 1)))

(* The file-ids of the claim, in the integers: a value is hi * 65536 + lo
   with 0 <= lo < 65536 and hi of either sign.  FileIds gives those of
   the deltas from the k-th on, fdid being the value before them. *)
SignedDelta(b) ==
    [lo |-> get_i32_le(b).lo,
     hi |-> IF i32_negative(get_i32_le(b)) THEN get_i32_le(b).hi - Half ELSE get_i32_le(b).hi]
NextFileId(fdid, delta) ==
    [lo |-> (fdid.lo + delta.lo + 1) % Half,
     hi |-> fdid.hi + delta.hi + (fdid.lo + delta.lo + 1) \div Half]
RECURSIVE FileIds(_, _, _)
FileIds(deltas, k, fdid) ==
    IF k > Len(deltas) THEN <<>>
    ELSE <<NextFileId(fdid, SignedDelta(deltas[k]))>>
         \o FileIds(deltas, k + 1, NextFileId(fdid, SignedDelta(deltas[k])))
AllFileIds(input) ==
    Concat([b \in 1..Len(input.blocks) |->
               FileIds(input.blocks[b].deltas, 1, [lo |-> Half - 1, hi |-> -1])])

(* C20: for every sequence of deltas, parse yields the file-ids
   fdid_i = fdid_(i-1) + delta_i + 1 (from -1 in every block) when they
   are all >= 0, and returns an error when one of them is negative. *)
C20_FileIdsOrError ==
    ( /\ pc = "root_returned"
      /\ call.input.fault = "none"
      /\ call.input.blocks # <<>> )
    => \E ids \in {AllFileIds(call.input)} :
          IF \A k \in 1..Len(ids) : ids[k].hi >= 0
          THEN /\ ret[1].kind = "ok"
               /\ Len(ret[1].val.data) = Len(ids)
               /\ \A k \in 1..Len(ids) :
                     /\ ret[1].val.data[k].fdid \div Half = ids[k].hi
                     /\ ret[1].val.data[k].fdid % Half = ids[k].lo
          ELSE ret[1].kind = "err"

---------------------------------------------------------------------------
(* C21: for every Root r and every name s, r.n2c(s) and r.n2c(s with every
   '/' replaced by '\') give the same result: the same content key, or
   both a miss. *)
C21_SeparatorStable ==
    (pc = "text_returned" /\ call.fn = "n2c")
    => ret[1] = n2c(NamedRoot(call.args[1]), replace(call.args[2], Slash, Backslash))

---------------------------------------------------------------------------
(* A text cut at a character: the positions of the cuts with both ends,
   the k-th of a set of positions, the k-th piece and the number of
   pieces; the lines of a text are its pieces at "\n", less the empty
   piece after a final "\n". *)
Cuts(s, c) == {0} \cup {i \in 1..Len(s) : s[i] = c} \cup {Len(s) + 1}
Nth(S, k) == CHOOSE x \in S : Cardinality({y \in S : y < x}) = k - 1
PieceCount(s, c) == Cardinality(Cuts(s, c)) - 1
Piece(s, c, k) == SubSeq(s, Nth(Cuts(s, c), k) + 1, Nth(Cuts(s, c), k + 1) - 1)
LineCount(s) ==
    IF s = <<>> THEN 0
    ELSE PieceCount(s, code("\n")) - (IF s[Len(s)] = code("\n") THEN 1 ELSE 0)
Line(s, k) == Piece(s, code("\n"), k)

(* The i-th schema tag of a text, the i-th field of its line k, and the
   number of columns that record j pairs with a field. *)
SchemaTag(s, i) == Piece(Piece(Line(s, 1), code("|"), i), code("!"), 1)
FieldOf(s, k, i) == Piece(Line(s, k), code("|"), i)
Paired(s, j) ==
    IF PieceCount(Line(s, 1), code("|")) < PieceCount(Line(s, j + 2), code("|"))
    THEN PieceCount(Line(s, 1), code("|"))
    ELSE PieceCount(Line(s, j + 2), code("|"))

(* C22: parse_info yields the empty list for the empty string and, for a
   text of n >= 1 lines, max(0, n - 2) records in line order, the second
   line being ignored; the keys of record j are the schema tags of the
   columns that line j + 2 has a field for, and a tag maps to the field
   of the last such column that has the tag. *)
C22_RecordsOfInfo ==
    (pc = "text_returned" /\ call.fn = "parse_info")
    => \E s \in {call.args[1]} :
          /\ ret[1].kind = "ok"
          /\ Len(ret[1].val) = (IF LineCount(s) > 2 THEN LineCount(s) - 2 ELSE 0)
          /\ \A j \in 1..Len(ret[1].val) :
                /\ DOMAIN ret[1].val[j] = {SchemaTag(s, i) : i \in 1..Paired(s, j)}
                /\ \A i \in 1..Paired(s, j) :
                      (\A h \in (i + 1)..Paired(s, j) : SchemaTag(s, h) # SchemaTag(s, i))
                      => ret[1].val[j][SchemaTag(s, i)] = FieldOf(s, j + 2, i)

C22_Witness ==
    /\ pc = "text_returned"
    /\ call.fn = "parse_info"
    /\ call.args[1] = join(<<str(<<"a", "!", "x", "|", "b", "!", "y">>), str(<<"a", "|", "a">>),
                             str(<<"x", "|", "y", "|", "z">>), str(<<"a">>)>>, <<code("\n")>>)
    /\ ret[1] = Ok(<<(str(<<"a">>) :> str(<<"x">>)) @@ (str(<<"b">>) :> str(<<"y">>)),
                     (str(<<"a">>) :> str(<<"a">>))>>)

(* C22 as stated: record j maps the i-th schema tag to the i-th field of
   line j + 2 for every i below the smaller of the two counts. *)
C22_EveryTagToItsField ==
    (pc = "text_returned" /\ call.fn = "parse_info")
    => \E s \in {call.args[1]} :
          /\ ret[1].kind = "ok"
          /\ Len(ret[1].val) = (IF LineCount(s) > 2 THEN LineCount(s) - 2 ELSE 0)
          /\ \A j \in 1..Len(ret[1].val) :
                \A i \in 1..Paired(s, j) :
                   /\ SchemaTag(s, i) \in DOMAIN ret[1].val[j]
                   /\ ret[1].val[j][SchemaTag(s, i)] = FieldOf(s, j + 2, i)

---------------------------------------------------------------------------
(* The first position of " = " in a line (0 when it has none), and the
   key and the value that the line gives. *)
SeparatorAt(l) ==
    IF \E i \in 1..(Len(l) - 2) : SubSeq(l, i, i + 2) = str(<<" ", "=", " ">>)
    THEN CHOOSE i \in 1..(Len(l) - 2) :
            /\ SubSeq(l, i, i + 2) = str(<<" ", "=", " ">>)
            /\ \A h \in 1..(i - 1) : SubSeq(l, h, h + 2) # str(<<" ", "=", " ">>)
    ELSE 0
KeyOf(l) == SubSeq(l, 1, SeparatorAt(l) - 1)
ValueOf(l) == SubSeq(l, SeparatorAt(l) + 3, Len(l))

(* C23: parse_config maps each line that holds " = " to the pair of the
   text before the first " = " and the text after it, ignores every other
   line, and keeps for a key the value of the last line that has it. *)
C23_PairsOfConfig ==
    (pc = "text_returned" /\ call.fn = "parse_config")
    => \E s \in {call.args[1]} :
          \E pairs \in {{k \in 1..LineCount(s) : SeparatorAt(Line(s, k)) > 0}} :
             /\ DOMAIN ret[1] = {KeyOf(Line(s, k)) : k \in pairs}
             /\ \A k \in pairs :
                   (\A h \in pairs : h > k => KeyOf(Line(s, h)) # KeyOf(Line(s, k)))
                   => ret[1][KeyOf(Line(s, k))] = ValueOf(Line(s, k))

C23_Witness ==
    /\ pc = "text_returned"
    /\ call.fn = "parse_config"
    /\ call.args[1] = join(<<str(<<"a", " ", "=", " ", "b">>), str(<<"x", "=", "y">>),
                             str(<<"a", " ", "=", " ", "c">>),
                             str(<<"b", " ", "=", " ", "c", " ", "=", " ", "d">>)>>,
                           <<code("\n")>>)
    /\ ret[1] = (str(<<"a">>) :> str(<<"c">>))
                @@ (str(<<"b">>) :> str(<<"c", " ", "=", " ", "d">>))

---------------------------------------------------------------------------
(* The segments of a path, '/' read as '\', and the segments that remain
   after those of file from the k-th on have acted on the kept ones. *)
Segments(path) ==
    [k \in 1..PieceCount(replace(path, Slash, Backslash), Backslash) |->
        Piece(replace(path, Slash, Backslash), Backslash, k)]
RECURSIVE Acted(_, _, _)
Acted(kept, segs, k) ==
    IF k > Len(segs) THEN kept
    ELSE IF segs[k] = str(<<".", ".">>)
    THEN Acted(SubSeq(kept, 1, Len(kept) - 1), segs, k + 1)
    ELSE Acted(kept \o <<segs[k]>>, segs, k + 1)

(* C24: normalize_path(base, file) reads '/' as '\' in both, drops the
   last segment of base, lets the segments of file act from left to right
   (".." removes the last remaining segment, if any; another segment is
   appended) and joins the result by '\'; normalize_path("", "") = "",
   normalize_path("a", "b") = "b", normalize_path("dir\a", "b") = "dir\b";
   the result holds no '/'. *)
C24_NormalizedPath ==
    (pc = "text_returned" /\ call.fn = "normalize_path")
    => \E base \in {call.args[1]}, file \in {call.args[2]} :
          /\ ret[1] = join(Acted(SubSeq(Segments(base), 1, Len(Segments(base)) - 1),
                                 Segments(file), 1),
                           <<Backslash>>)
          /\ \A i \in 1..Len(ret[1]) : ret[1][i] # Slash
          /\ (base = <<>> /\ file = <<>>) => ret[1] = <<>>
          /\ (base = str(<<"a">>) /\ file = str(<<"b">>)) => ret[1] = str(<<"b">>)
          /\ (base = str(<<"d", "i", "r", "\\", "a">>) /\ file = str(<<"b">>))
             => ret[1] = str(<<"d", "i", "r", "\\", "b">>)

C24_Witness ==
    /\ pc = "text_returned"
    /\ call.fn = "normalize_path"
    /\ call.args = <<str(<<"a", "\\", "b", "/", "c">>), str(<<".", ".", "/", "a", "/", "b">>)>>
    /\ ret[1] = str(<<"a", "\\", "a", "\\", "b">>)

---------------------------------------------------------------------------
(* What the two lookups of the walker give for a file under the tables of
   the pass: the name lookup, and the file-id table followed by f2c. *)
ByName(file) == n2c(proc.encoding_and_root[1].root, file)
ById(file) ==
    IF Has(proc.fdids[1], to_lowercase(file))
    THEN f2c(proc.encoding_and_root[1].root, proc.fdids[1][to_lowercase(file)])
    ELSE Err("no file id for the name")

(* C25: for every entry of the worklist the walker uses the content key
   of the name lookup when that succeeds, even when the file-id table
   gives the name a file-id with another content key; it uses the key of
   the file-id table when only that resolves; and it skips the entry only
   when both fail. *)
C25_NameFirstThenFallback ==
    pc = "walk"
    => /\ (proc.file # None /\ proc.content # None)
          => /\ ByName(proc.file[1]).kind = "ok" \/ ById(proc.file[1]).kind = "ok"
             /\ proc.content[1].ckey = IF ByName(proc.file[1]).kind = "ok"
                                       THEN ByName(proc.file[1]).val
                                       ELSE ById(proc.file[1]).val
       /\ \A file \in proc.skipped :
             ByName(file).kind # "ok" /\ ById(file).kind # "ok"

C25_Witness ==
    /\ pc = "walk"
    /\ world.dev = "fallback_differs"
    /\ proc.file # None
    /\ proc.content # None
    /\ ByName(proc.file[1]).kind = "ok"
    /\ ById(proc.file[1]).kind = "ok"
    /\ ById(proc.file[1]).val # ByName(proc.file[1]).val
    /\ proc.content[1].ckey = ByName(proc.file[1]).val
    /\ proc.skipped # {}

---------------------------------------------------------------------------
(* The index that the CDN holds of the k-th archive listed in the CDN
   config, and the last listed archive whose index has the key e. *)
ListedIndex(k) == world.cdn.indices[k].map
LastListedWith(e) ==
    CHOOSE k \in 1..world.archives :
        /\ e \in DOMAIN ListedIndex(k)
        /\ \A j \in (k + 1)..world.archives : e \notin DOMAIN ListedIndex(j)

(* C27: whatever the order in which the index requests complete, the
   merged archive index has the union of the keys of the per-archive
   indices, and a key that several of them hold maps to the entry of the
   archive listed last in the CDN config; such a key is no error. *)
C27_MergedIndex ==
    proc.archive_index # None
    => /\ DOMAIN proc.archive_index[1].map
            = UNION {DOMAIN ListedIndex(k) : k \in 1..world.archives}
       /\ \A e \in DOMAIN proc.archive_index[1].map :
             proc.archive_index[1].map[e] = ListedIndex(LastListedWith(e))[e]

C27_Witness ==
    /\ proc.archive_index # None
    /\ world.archives = 2
    /\ \E e \in DOMAIN ListedIndex(1) \cap DOMAIN ListedIndex(2) :
          /\ ListedIndex(1)[e] # ListedIndex(2)[e]
          /\ proc.archive_index[1].map[e] = ListedIndex(2)[e]
    /\ DOMAIN ListedIndex(1) # DOMAIN ListedIndex(2)
    /\ pc = "fdids"

---------------------------------------------------------------------------
(* C28: the walker terminates for every finite set of resolvable files
   and every reference relation among them, cyclic or self references
   included: a pass that has entered the loop leaves it. *)
C28_WalkerTerminates == (pc = "walk") ~> (pc # "walk")

---------------------------------------------------------------------------
(* A step in which fetch_cdn_or_file is called, the cache file of the call
   made, and the bytes of the last response on the wire. *)
DbCalled == pc \in {"db_idle", "db_returned"} /\ pc' \in {"db_wait", "db_file_returned"}
CacheFile(c) == db_path(c.local_tag, c.hash)
LastResponse(w) == w[Len(w)].body[1]

(* C26: fetch_cdn_or_file returns the bytes of the cache file
   cascdb/<local_tag>/H[0..2]/H[2..4]/H when it is readable and issues no
   CDN request; otherwise it requests the object from the CDN and, when it
   returns bytes, they are those of the response and the cache file holds
   them.  No step changes a file that cascdb/ holds, so after a successful
   call every later call for the same (local_tag, hash) issues no request
   and returns the same bytes. *)
C26_CacheShortCircuits ==
    [][ /\ (DbCalled /\ CacheFile(call') \in DOMAIN cascdb)
           => /\ pc' = "db_file_returned"
              /\ ret' = Some(Ok(cascdb[CacheFile(call')]))
              /\ wire' = <<>>
              /\ fetches' = fetches
        /\ (DbCalled /\ CacheFile(call') \notin DOMAIN cascdb)
           => /\ pc' = "db_wait"
              /\ Len(wire') = 1
              /\ wire'[1].url.path = cdn_path(call'.cdn_tag, call'.hash, call'.suffix)
        /\ (pc = "db_wait" /\ pc' = "db_file_returned" /\ ret'[1].kind = "ok")
           => /\ ret'[1].val = LastResponse(wire')
              /\ CacheFile(call) \in DOMAIN cascdb'
              /\ cascdb'[CacheFile(call)] = ret'[1].val
        /\ \A file \in DOMAIN cascdb :
              file \in DOMAIN cascdb' /\ cascdb'[file] = cascdb[file]
        /\ (pc' = "db_file_returned" /\ ret'[1].kind = "ok")
           => cascdb'[CacheFile(call')] = ret'[1].val ]_vars

C26_Witness ==
    /\ pc = "db_file_returned"
    /\ call.nth = MaxDbCalls
    /\ call.local_tag = "archive"
    /\ wire = <<>>
    /\ ret = Some(Ok(DbHeld(call)))
    /\ DOMAIN cascdb = {db_path("archive", ArchiveKey(1))}

---------------------------------------------------------------------------
(* C29: in every reachable state of builddb every file under
   cascdb/config is named after the MD5 of its bytes, as checkdb requires
   (parse_hash of the file name is md5hash of the bytes): a corrupted
   response is neither stored nor served from the cache. *)
C29_ConfigNamedAfterMd5 ==
    \A file \in DOMAIN cascdb :
        file.tag = "config" => parse_hash(file.file) = md5hash(cascdb[file])


---------------------------------------------------------------------------
(* C30: blte::parse is total over byte strings: for every input and
   expected checksum it returns decoded bytes or an error value and never
   aborts; a header-size of 1..7, a chunk descriptor whose compressed_size
   is 0 and a compressed_size larger than the rest of the body all yield an
   error value. *)
C30_ParseIsTotal ==
    pc = "blte_returned" => ret[1].kind \in {"ok", "err"}

===========================================================================
